---- MODULE Spec2Model ----
(***************************************************************************)
(* Ada bot (Avunite/Ada): event ingestion, deduplication, rate limiting    *)
(* and the reply pipeline.                                                  *)
(*                                                                          *)
(* Time is counted in whole hours since the start of the run.  A calendar  *)
(* day has HoursPerDay hours; JavaScript Date values and SQLite            *)
(* CURRENT_TIMESTAMP values are both derived from the one clock `now`.      *)
(***************************************************************************)
EXTENDS Integers, Sequences, FiniteSets, TLC

\* ------------------------------------------------------------------ bounds
MaxDay == 1
MaxHourOfDay == 1
MaxDaysOld == 1
MaxPendingMarks == 1
MaxNowRate == 2
MaxProcs == 2

\* ------------------------------------------------------- program constants
HoursPerDay == 24
SpaceChar == 32
TChar == 84
MessageCap == 15
OneHour == 1
MaxProcessedIds == 1000
KeepProcessedIds == 500

\* --------------------------------------------------------------- input sets
NotificationIds == {"n1", "n2"}
NotificationTypes == {"mention", "reply"}
Users == {"u1", "u2"}
DedupUsers == {"u1"}
RateUsers == {"u1"}
CallIds == {"c1", "c2"}
BotUserId == "ada"
AllUsers == Users \cup {BotUserId}
PlusUsers == {"u2"}
NoteIds == {"m1", "m2", "m3"}
Texts == {"!cc", "!memory", "!clearmemory", "!remember x", "help", "hello"}
NULL == "NULL"
None == [none |-> TRUE]

VARIABLES
  now,                      \* Date.now(), in hours
  processed_notifications,  \* table processed_notifications, in rowid order
  pendingMarks,             \* INSERTs issued by markNotificationAsProcessed, not yet run
  sweep,                    \* the cleanupOldNotifications call in flight, or None
  markCompleted,            \* per id: marks resolved since the id was last swept (0, 1, 2 = several)
  isProcessedResult,        \* the last answer of isNotificationProcessed
  lastSweep,                \* what the last DELETE of the sweep removed
  message_limits,           \* table message_limits: userId -> row, or None
  rateCalls,                \* the checkMessageLimit calls in flight
  rateWindow,               \* per user: start of the current window and the calls allowed in it
  procs,                    \* the handler invocations, in the order they began
  processedMessageIds,      \* MessageHandler.processedMessageIds, in insertion order
  messages,                 \* table messages: userId -> rows in id order
  user_memories,            \* table user_memories: userId -> rows
  historyCalls,             \* the getConversationHistory calls in flight
  toolCalls,                \* the tool_calls handed to executeToolCalls
  toolResults,              \* executeToolCalls: results
  toolRun,                  \* where the tool call being executed stands
  platformCalls,            \* the platform calls attempted: <<call index, method, outcome>>
  socketState,              \* the socket connect() made last: none, connecting, open, closing, closed
  wsSet,                    \* this.ws is not null
  isConnected,              \* WebSocketManager.isConnected
  reconnectAttempts,        \* WebSocketManager.reconnectAttempts
  reconnectTimers,          \* pending setTimeout(() => this.connect())
  wsScheduled,              \* reconnects scheduled since the last open
  wsGaveUp,                 \* attemptReconnect gave up, and no open since
  wsStarted,                \* the application has called connect()
  wsLast,                   \* the socket event handled last
  wsEmitted,                \* the events that handler emitted, in order
  eventHandlers,            \* WebSocketManager.eventHandlers: event -> handlers, as added
  wsInvoked,                \* the emits of that handler: the handlers held and those invoked
  importanceCall,           \* the last calculateImportance: content and result
  analyzeCall,              \* the analyzeAndStoreMemories call in flight
  cleanupCall,              \* the cleanupMemories call in flight
  relevantCall,             \* the last getRelevantMemories: rows read and result
  lastEviction,             \* the last row cleanupMemories deleted, and its place then
  cacheClock,               \* Date.now() as UserContextManager reads it, in cleanup intervals
  userCache,                \* UserContextManager.userCache: userId -> entry, or None
  profileCalls,             \* the getUserProfile calls in flight
  lastProfile,              \* per user: the profile fetched last, or None
  periodicRun,              \* the cleanupUserMemories run of the daily timer, or None
  dmDelivered,              \* the ids of the direct-message frames handled, in order
  requestLog                \* the message lists sent to the completion service, in order

dedupVars == <<processed_notifications, pendingMarks, sweep, markCompleted,
               isProcessedResult, lastSweep>>
rateVars == <<message_limits, rateCalls, rateWindow>>
pipeVars == <<procs, processedMessageIds, messages, user_memories>>
historyVars == <<historyCalls>>
toolVars == <<toolCalls, toolResults, toolRun, platformCalls>>
emitVars == <<eventHandlers, wsInvoked>>
wsVars == <<socketState, wsSet, isConnected, reconnectAttempts, reconnectTimers,
            wsScheduled, wsGaveUp, wsStarted, wsLast, wsEmitted, emitVars>>
memVars == <<importanceCall, analyzeCall, cleanupCall, relevantCall, lastEviction>>
profileVars == <<cacheClock, userCache, profileCalls, lastProfile>>
periodicVars == <<periodicRun>>
directVars == <<dmDelivered>>
requestVars == <<requestLog>>
laterVars == <<memVars, profileVars, periodicVars, directVars, requestVars>>
extVars == <<historyVars, toolVars, wsVars, laterVars>>
exceptHistory == <<toolVars, wsVars, laterVars>>
exceptTools == <<historyVars, wsVars, laterVars>>
exceptWs == <<historyVars, toolVars, laterVars>>
exceptMem == <<historyVars, toolVars, wsVars, profileVars, periodicVars, directVars,
              requestVars>>
exceptProfile == <<historyVars, toolVars, wsVars, memVars, periodicVars, directVars,
                  requestVars>>
exceptPeriodic == <<historyVars, toolVars, wsVars, memVars, profileVars, directVars,
                   requestVars>>
exceptDirect == <<historyVars, toolVars, wsVars, memVars, profileVars, periodicVars,
                 requestVars>>
exceptRequest == <<historyVars, toolVars, wsVars, memVars, profileVars, periodicVars,
                  directVars>>
vars == <<now, dedupVars, rateVars, pipeVars, extVars>>

\* ------------------------------------------------------------ time formats
\* SQLite CURRENT_TIMESTAMP: 'YYYY-MM-DD HH:MM:SS' (date, a space, time of day)
CurrentTimestamp(t) == <<t \div HoursPerDay, SpaceChar, t % HoursPerDay>>

\* Date.prototype.toISOString: 'YYYY-MM-DDTHH:MM:SS.sssZ' (date, 'T', time of day)
ToISOString(t) == <<t \div HoursPerDay, TChar, t % HoursPerDay>>

\* SQLite's text comparison (BINARY collation): memcmp, position by position
RECURSIVE TextLess(_, _)
TextLess(a, b) ==
  IF a = <<>> THEN b # <<>>
  ELSE IF b = <<>> THEN FALSE
  ELSE IF Head(a) # Head(b) THEN Head(a) < Head(b)
  ELSE TextLess(Tail(a), Tail(b))

\* ---------------------------------------------------------- sequence helpers
RowsOf(rows) == {rows[i] : i \in DOMAIN rows}

\* =========================================================== Deduplicator
\* SELECT notification_id FROM processed_notifications WHERE notification_id = ?
IsNotificationProcessedQuery(table, notificationId) ==
  \E i \in DOMAIN table : table[i].notification_id = notificationId

\* the INSERT without OR IGNORE on a table without the UNIQUE constraint
InsertNotificationAlways(table, notificationId, notificationType, userId, t) ==
  Append(table, [id |-> NULL,
                 notification_id |-> notificationId,
                 notification_type |-> notificationType,
                 user_id |-> userId,
                 processed_at |-> CurrentTimestamp(t)])

\* INSERT OR IGNORE INTO processed_notifications (notification_id,
\* notification_type, user_id): the column id is left NULL, processed_at takes
\* its DEFAULT CURRENT_TIMESTAMP, and a row that would break UNIQUE
\* (notification_id) is ignored.
InsertOrIgnoreNotification(table, notificationId, notificationType, userId, t) ==
  IF \E i \in DOMAIN table : table[i].notification_id = notificationId
  THEN table
  ELSE Append(table, [id |-> NULL,
                      notification_id |-> notificationId,
                      notification_type |-> notificationType,
                      user_id |-> userId,
                      processed_at |-> CurrentTimestamp(t)])

\* DELETE FROM processed_notifications WHERE processed_at < ?
DeleteOldNotifications(table, cutoffDate) ==
  LET Keep(r) == ~TextLess(r.processed_at, cutoffDate)
  IN SelectSeq(table, Keep)

\* isNotificationProcessed(notificationId)
IsNotificationProcessed(notificationId) ==
  /\ isProcessedResult' =
       [id |-> notificationId,
        result |-> IsNotificationProcessedQuery(processed_notifications, notificationId),
        marked |-> markCompleted[notificationId] > 0]
  /\ UNCHANGED <<extVars, rateVars, pipeVars, now, processed_notifications, pendingMarks, sweep, markCompleted,
                 lastSweep>>

\* markNotificationAsProcessed(notificationId, notificationType, userId): db.run
\* queues the statement
MarkNotificationAsProcessed(notificationId, notificationType, userId) ==
  /\ Cardinality(pendingMarks) < MaxPendingMarks
  /\ pendingMarks' = pendingMarks \cup
       {[notification_id |-> notificationId,
         notification_type |-> notificationType,
         user_id |-> userId]}
  /\ UNCHANGED <<extVars, rateVars, pipeVars, now, processed_notifications, sweep, markCompleted,
                 isProcessedResult, lastSweep>>

\* the queued INSERT runs and its callback resolves the promise
MarkNotificationRun(m) ==
  /\ m \in pendingMarks
  /\ pendingMarks' = pendingMarks \ {m}
  /\ processed_notifications' =
       InsertOrIgnoreNotification(processed_notifications, m.notification_id,
                                  m.notification_type, m.user_id, now)
  /\ markCompleted' = [markCompleted EXCEPT ![m.notification_id] =
                          IF @ = 0 THEN 1 ELSE 2]
  /\ UNCHANGED <<extVars, rateVars, pipeVars, now, sweep, isProcessedResult, lastSweep>>

\* cleanupOldNotifications(daysOld): the cutoff is computed when the call is
\* made, the DELETE runs when the database gets to it
CleanupOldNotifications(daysOld) ==
  /\ sweep = None
  /\ now >= daysOld * HoursPerDay
  /\ sweep' = [cutoff |-> now - daysOld * HoursPerDay,
               cutoffDate |-> ToISOString(now - daysOld * HoursPerDay)]
  /\ UNCHANGED <<extVars, rateVars, pipeVars, now, processed_notifications, pendingMarks, markCompleted,
                 isProcessedResult, lastSweep>>

CleanupOldNotificationsRun ==
  /\ sweep # None
  /\ LET kept == DeleteOldNotifications(processed_notifications, sweep.cutoffDate)
         deleted == RowsOf(processed_notifications) \ RowsOf(kept)
     IN /\ processed_notifications' = kept
        /\ lastSweep' = [cutoff |-> sweep.cutoff,
                          deleted |-> {r.processed_at : r \in deleted}]
        /\ markCompleted' = [n \in NotificationIds |->
                              IF \E r \in deleted : r.notification_id = n
                              THEN 0 ELSE markCompleted[n]]
  /\ sweep' = None
  /\ UNCHANGED <<extVars, rateVars, pipeVars, now, pendingMarks, isProcessedResult>>

\* the clock moves on by an hour
AdvanceHour ==
  /\ now % HoursPerDay < MaxHourOfDay
  /\ now' = now + 1
  /\ UNCHANGED <<extVars, dedupVars, rateVars, pipeVars>>

\* the clock moves on to the next midnight
AdvanceDay ==
  /\ now \div HoursPerDay < MaxDay
  /\ now' = (now \div HoursPerDay + 1) * HoursPerDay
  /\ UNCHANGED <<extVars, dedupVars, rateVars, pipeVars>>

\* ============================================================ Rate window
Allowed == [allowed |-> TRUE]
LimitReached(resetTime) == [limitReached |-> TRUE, resetTime |-> resetTime]
IdleCall == [pc |-> "idle", userId |-> NULL, isPlus |-> FALSE, now |-> 0,
             row |-> None, result |-> None, write |-> "none", before |-> None,
             nth |-> 0, next |-> "none"]

\* the Plus test left out
CheckMessageLimitEntryNoPlus(isPlus) == "query"

\* if (isPlus) return true, before anything is read
CheckMessageLimitEntry(isPlus) == IF isPlus THEN "unlimited" ELSE "query"

\* the cap compared with <= instead of <
CheckMessageLimitDecisionOffByOne(row, t) ==
  IF row # None
  THEN IF row.reset_time < t - OneHour
       THEN [result |-> Allowed, write |-> "reset"]
       ELSE IF row.message_count <= MessageCap
       THEN [result |-> Allowed, write |-> "increment"]
       ELSE [result |-> LimitReached(ToISOString(row.reset_time)), write |-> "none"]
  ELSE [result |-> Allowed, write |-> "insert"]

\* the branches taken on the row that SELECT returned: the result, and the
\* statement handed to db.run
CheckMessageLimitDecision(row, t) ==
  IF row # None
  THEN IF row.reset_time < t - OneHour
       THEN [result |-> Allowed, write |-> "reset"]
       ELSE IF row.message_count < MessageCap
       THEN [result |-> Allowed, write |-> "increment"]
       ELSE [result |-> LimitReached(ToISOString(row.reset_time)), write |-> "none"]
  ELSE [result |-> Allowed, write |-> "insert"]

\* the reset that forgets to restart the window
RunLimitStatementKeepsStart(row, write, t) ==
  CASE write = "reset" ->
         IF row = None THEN None
         ELSE [message_count |-> 1, reset_time |-> row.reset_time]
    [] write = "increment" ->
         IF row = None THEN None
         ELSE [message_count |-> row.message_count + 1, reset_time |-> row.reset_time]
    [] write = "insert" ->
         IF row = None THEN [message_count |-> 1, reset_time |-> t] ELSE row
    [] OTHER -> row

\* the statement of db.run, when the database runs it:
\*   UPDATE ... SET message_count = 1, reset_time = ?   (reset)
\*   UPDATE ... SET message_count = message_count + 1   (increment)
\*   INSERT INTO message_limits ... VALUES (?, 1, ?)    (insert; userId is the
\*   PRIMARY KEY, a second row for the user is refused)
RunLimitStatement(row, write, t) ==
  CASE write = "reset" ->
         IF row = None THEN None ELSE [message_count |-> 1, reset_time |-> t]
    [] write = "increment" ->
         IF row = None THEN None
         ELSE [message_count |-> row.message_count + 1, reset_time |-> row.reset_time]
    [] write = "insert" ->
         IF row = None THEN [message_count |-> 1, reset_time |-> t] ELSE row
    [] OTHER -> row

\* processMessage on the result: the limit notice, or on to the reply
ProcessLimitResult(result) ==
  IF result # Allowed
  THEN IF result.limitReached THEN "limitNotice" ELSE "reply"
  ELSE "reply"

\* the window as the rate policy counts it: a call later than one hour after
\* the window's first call opens a new window
WindowAfter(w, t, result) ==
  IF w = None \/ t - w.start > OneHour
  THEN [start |-> t, allowed |-> IF result = Allowed THEN 1 ELSE 0]
  ELSE [w EXCEPT !.allowed = IF result = Allowed THEN @ + 1 ELSE @]

NthInWindow(w, t) ==
  IF w = None \/ t - w.start > OneHour THEN 1 ELSE w.allowed + 1

\* checkMessageLimit(userId, isPlus) is called
CheckMessageLimit(c, userId, isPlus) ==
  /\ rateCalls[c].pc = "idle"
  /\ rateCalls' = [rateCalls EXCEPT ![c] =
       IF CheckMessageLimitEntry(isPlus) = "unlimited"
       THEN [IdleCall EXCEPT !.pc = "done", !.userId = userId, !.isPlus = isPlus,
                             !.now = now, !.result = Allowed,
                             !.before = message_limits[userId],
                             !.next = ProcessLimitResult(Allowed)]
       ELSE [IdleCall EXCEPT !.pc = "get", !.userId = userId, !.isPlus = isPlus,
                             !.now = now,
                             !.before = IF isPlus THEN message_limits[userId]
                                        ELSE None]]
  /\ UNCHANGED <<now, extVars, dedupVars, pipeVars, message_limits, rateWindow>>

\* the SELECT runs
CheckMessageLimitGet(c) ==
  /\ rateCalls[c].pc = "get"
  /\ rateCalls' = [rateCalls EXCEPT ![c].pc = "decide",
                                    ![c].row = message_limits[rateCalls[c].userId]]
  /\ UNCHANGED <<now, extVars, dedupVars, pipeVars, message_limits, rateWindow>>

\* the call resumes with the row, hands its statement to db.run and returns
CheckMessageLimitDecide(c) ==
  /\ rateCalls[c].pc = "decide"
  /\ LET call == rateCalls[c]
         d == CheckMessageLimitDecision(call.row, call.now)
     IN /\ rateCalls' = [rateCalls EXCEPT ![c] =
             [call EXCEPT !.pc = IF d.write = "none" THEN "done" ELSE "run",
                          !.result = d.result,
                          !.write = d.write,
                          !.nth = NthInWindow(rateWindow[call.userId], call.now),
                          !.next = ProcessLimitResult(d.result)]]
        /\ rateWindow' = [rateWindow EXCEPT ![call.userId] =
             WindowAfter(@, call.now, d.result)]
  /\ UNCHANGED <<now, extVars, dedupVars, pipeVars, message_limits>>

\* the statement of db.run runs
CheckMessageLimitRun(c) ==
  /\ rateCalls[c].pc = "run"
  /\ LET call == rateCalls[c]
     IN message_limits' = [message_limits EXCEPT ![call.userId] =
          RunLimitStatement(@, call.write, call.now)]
  /\ rateCalls' = [rateCalls EXCEPT ![c].pc = "done"]
  /\ UNCHANGED <<now, extVars, dedupVars, pipeVars, rateWindow>>

\* processMessage has acted on the result; the call is over
CheckMessageLimitEnd(c) ==
  /\ rateCalls[c].pc = "done"
  /\ rateCalls' = [rateCalls EXCEPT ![c] = IdleCall]
  /\ UNCHANGED <<now, extVars, dedupVars, pipeVars, message_limits, rateWindow>>

\* a call made while no other call is in progress
CheckMessageLimitAlone(c, userId, isPlus) ==
  /\ \A d \in CallIds : rateCalls[d].pc = "idle"
  /\ CheckMessageLimit(c, userId, isPlus)

AdvanceRate ==
  /\ now < MaxNowRate
  /\ now' = now + 1
  /\ UNCHANGED <<extVars, dedupVars, rateVars, pipeVars>>

InitRateVars ==
  /\ message_limits = [u \in AllUsers |-> None]
  /\ rateCalls = [c \in CallIds |-> IdleCall]
  /\ rateWindow = [u \in AllUsers |-> None]

\* ================================================================= Memories
\* ---- texts
UpperChars == "ABCDEFGHIJKLMNOPQRSTUVWXYZ"
LowerChars == "abcdefghijklmnopqrstuvwxyz"
Digits == "0123456789"

CharAt(t, i) == SubSeq(t, i, i)
CharsOf(t) == {CharAt(t, i) : i \in 1..Len(t)}

\* String.prototype.toLowerCase
LowerChar(c) ==
  IF c \in CharsOf(UpperChars)
  THEN CharAt(LowerChars, CHOOSE i \in 1..Len(UpperChars) : CharAt(UpperChars, i) = c)
  ELSE c

RECURSIVE ToLowerCase(_)
ToLowerCase(t) ==
  IF t = "" THEN "" ELSE LowerChar(CharAt(t, 1)) \o ToLowerCase(SubSeq(t, 2, Len(t)))

\* String.prototype.includes
Includes(t, k) == \E i \in 1..(Len(t) - Len(k) + 1) : SubSeq(t, i, i + Len(k) - 1) = k

\* ---- importance
\* this.memoryTypes
MemoryTypes == {"preference", "fact", "conversation", "relationship", "interest",
                "goal", "experience", "reminder"}

\* this.importanceKeywords
HighKeywords == {"important", "remember", "never forget", "always", "love", "hate",
                 "favorite", "birthday", "anniversary"}
MediumKeywords == {"like", "enjoy", "prefer", "usually", "often", "sometimes", "work",
                   "live", "family"}
LowKeywords == {"maybe", "perhaps", "might", "could", "sometimes"}

\* calculateImportance with the low keywords looked up before the medium ones
CalculateImportanceLowFirst(content) ==
  LET lowerContent == ToLowerCase(content)
  IN IF \E keyword \in HighKeywords : Includes(lowerContent, keyword) THEN 9
     ELSE IF \E keyword \in LowKeywords : Includes(lowerContent, keyword) THEN 3
     ELSE IF \E keyword \in MediumKeywords : Includes(lowerContent, keyword) THEN 6
     ELSE 5

\* calculateImportance(content): the first tier with a keyword the lowercased
\* content includes
CalculateImportance(content) ==
  LET lowerContent == ToLowerCase(content)
  IN IF \E keyword \in HighKeywords : Includes(lowerContent, keyword) THEN 9
     ELSE IF \E keyword \in MediumKeywords : Includes(lowerContent, keyword) THEN 6
     ELSE IF \E keyword \in LowKeywords : Includes(lowerContent, keyword) THEN 3
     ELSE 5

\* ---- extraction
Minimum(S) == CHOOSE x \in S : \A y \in S : x <= y

\* the characters \\s matches
WhiteSpace == {" "}
\* the characters [a-z0-9\\s] matches
KeyChars == CharsOf(LowerChars) \cup CharsOf(Digits) \cup WhiteSpace

\* String.prototype.trim
RECURSIVE Trim(_)
Trim(t) ==
  IF t = "" THEN ""
  ELSE IF CharAt(t, 1) \in WhiteSpace THEN Trim(SubSeq(t, 2, Len(t)))
  ELSE IF CharAt(t, Len(t)) \in WhiteSpace THEN Trim(SubSeq(t, 1, Len(t) - 1))
  ELSE t

\* replace(/[^a-z0-9\\s]/g, '')
RECURSIVE StripOthers(_)
StripOthers(t) ==
  IF t = "" THEN ""
  ELSE (IF CharAt(t, 1) \in KeyChars THEN CharAt(t, 1) ELSE "")
         \o StripOthers(SubSeq(t, 2, Len(t)))

\* replace(/\\s+/g, '_')
RECURSIVE UnderscoreSpaces(_)
UnderscoreSpaces(t) ==
  IF t = "" THEN ""
  ELSE IF CharAt(t, 1) \notin WhiteSpace
  THEN CharAt(t, 1) \o UnderscoreSpaces(SubSeq(t, 2, Len(t)))
  ELSE IF Len(t) > 1 /\ CharAt(t, 2) \in WhiteSpace
  THEN UnderscoreSpaces(SubSeq(t, 2, Len(t)))
  ELSE "_" \o UnderscoreSpaces(SubSeq(t, 2, Len(t)))

KeyLength == 50

\* generateKey(content)
GenerateKey(content) ==
  LET key == UnderscoreSpaces(StripOthers(ToLowerCase(content)))
  IN IF Len(key) > KeyLength THEN SubSeq(key, 1, KeyLength) ELSE key

\* a pattern of extractMemories: the literals a match can start with, and for
\* the patterns with two groups the literal between them; each group is
\* (.+?), and the match ends with (?:\\.|$|,)
Pattern(type, heads, mid) == [type |-> type, heads |-> heads, mid |-> mid]

Patterns ==
  <<Pattern("preference", {"i love ", "i like ", "i enjoy ", "i prefer ", "i hate ",
                           "i dislike "}, ""),
    Pattern("preference", {"my favorite "}, " is "),
    Pattern("preference", {"i usually "}, ""),
    Pattern("preference", {"i always "}, ""),
    Pattern("preference", {"i never "}, ""),
    Pattern("fact", {"i am "}, ""),
    Pattern("fact", {"i work as "}, ""),
    Pattern("fact", {"i live in "}, ""),
    Pattern("fact", {"my "}, " is "),
    Pattern("fact", {"i have "}, ""),
    Pattern("fact", {"i'm "}, ""),
    Pattern("interest", {"i'm into "}, ""),
    Pattern("interest", {"i play "}, ""),
    Pattern("interest", {"i collect "}, ""),
    Pattern("interest", {"i'm learning "}, ""),
    Pattern("interest", {"i study "}, "")>>

\* is the literal at position i of the text
LiteralAt(lower, i, literal) ==
  /\ i + Len(literal) - 1 <= Len(lower)
  /\ SubSeq(lower, i, i + Len(literal) - 1) = literal

\* (.+?)(?:\\.|$|,) from position g: the last position matched, 0 without a
\* match; the group takes one character and then as few as possible
GroupEnd(lower, g) ==
  IF g > Len(lower) THEN 0
  ELSE LET stops == {k \in (g + 1)..Len(lower) : CharAt(lower, k) \in {".", ","}}
       IN IF stops = {} THEN Len(lower) ELSE Minimum(stops)

\* the pattern tried at position i: the last position matched, 0 without a match
MatchEnd(lower, i, pattern) ==
  LET heads == {h \in pattern.heads : LiteralAt(lower, i, h)}
  IN IF heads = {} THEN 0
     ELSE LET g == i + Len(CHOOSE h \in heads : TRUE)
              mids == {j \in (g + 1)..Len(lower) : LiteralAt(lower, j, pattern.mid)}
          IN IF pattern.mid = "" THEN GroupEnd(lower, g)
             ELSE IF mids = {} THEN 0
             ELSE GroupEnd(lower, Minimum(mids) + Len(pattern.mid))

\* while ((match = pattern.exec(content)) !== null): match[0] of each match,
\* flags gi; from is lastIndex
RECURSIVE ExecAll(_, _, _)
ExecAll(content, pattern, from) ==
  LET lower == ToLowerCase(content)
      starts == {i \in from..Len(content) : MatchEnd(lower, i, pattern) > 0}
  IN IF starts = {} THEN <<>>
     ELSE LET i == Minimum(starts)
              end == MatchEnd(lower, i, pattern)
          IN <<SubSeq(content, i, end)>> \o ExecAll(content, pattern, end + 1)

\* a memory pushed by extractMemories / a row of user_memories
Memory(key, value, type, importance) ==
  [key |-> key, value |-> value, type |-> type, importance |-> importance]

\* the memories of the patterns from the n-th on
RECURSIVE PatternMemories(_, _)
PatternMemories(content, n) ==
  IF n > Len(Patterns) THEN <<>>
  ELSE LET matches == ExecAll(content, Patterns[n], 1)
       IN [k \in DOMAIN matches |->
             Memory(Patterns[n].type \o "_" \o GenerateKey(matches[k]),
                    Trim(matches[k]), Patterns[n].type,
                    CalculateImportance(matches[k]))]
          \o PatternMemories(content, n + 1)

\* the messages memories are extracted from
MemoryTexts == {"I love tea.", "i LOVE  tea", "I love tea !", "I am maybe shy, remember"}

\* extractMemories over these messages, worked out once: the memories of the
\* patterns, and whether the content includes 'remember' or 'important'
Extraction ==
  [content \in MemoryTexts \cup Texts |->
     [memories |-> PatternMemories(content, 1),
      conversation |-> \/ Includes(ToLowerCase(content), "remember")
                       \/ Includes(ToLowerCase(content), "important"),
      trimmed |-> Trim(content)]]

\* extractMemories(content) at Date.now() = time
ExtractMemories(content, time) ==
  Extraction[content].memories
    \o (IF Extraction[content].conversation
        THEN <<Memory("conversation_" \o ToString(time), Extraction[content].trimmed,
                      "conversation", 8)>>
        ELSE <<>>)

\* ---- the table user_memories
\* the row an INSERT writes at time: updated_at is CURRENT_TIMESTAMP
MemoryRow(memory, time) ==
  [key |-> memory.key, value |-> memory.value, type |-> memory.type,
   importance |-> memory.importance, updated_at |-> CurrentTimestamp(time)]

\* REPLACE taking the place of every row of the user
StoreMemoryAlone(rows, memory, time) == {MemoryRow(memory, time)}

\* storeMemory: INSERT OR REPLACE INTO user_memories under UNIQUE(user_id,
\* memory_key): the row of the key is deleted, the new one inserted
StoreMemory(rows, memory, time) ==
  {r \in rows : r.key # memory.key} \cup {MemoryRow(memory, time)}

\* ORDER BY importance DESC, updated_at DESC: a comes before b
RankedBefore(a, b) ==
  \/ a.importance > b.importance
  \/ a.importance = b.importance /\ TextLess(b.updated_at, a.updated_at)

\* the orders a SELECT ... ORDER BY importance DESC, updated_at DESC can give
\* the rows: rows equal in both columns come in any order
RECURSIVE Orderings(_)
Orderings(rows) ==
  IF rows = {} THEN {<<>>}
  ELSE UNION {{<<first>> \o rest : rest \in Orderings(rows \ {first})} :
                first \in {r \in rows : \A q \in rows : ~RankedBefore(q, r)}}

\* LIMIT n, and Array.prototype.slice(0, n)
Take(s, n) == IF Len(s) > n THEN SubSeq(s, 1, n) ELSE s

\* ---- analyzeAndStoreMemories
\* analyzeAndStoreMemories(userId, messageContent) up to its first await
AnalyzeAndStoreMemories(userId, content) ==
  /\ analyzeCall = None
  /\ LET memories == ExtractMemories(content, now)
     IN analyzeCall' = IF memories = <<>> THEN None
                       ELSE [userId |-> userId, memories |-> memories]
  /\ UNCHANGED <<importanceCall, cleanupCall, relevantCall, lastEviction>>
  /\ UNCHANGED <<now, dedupVars, rateVars, pipeVars, exceptMem>>

\* the storeMemory awaited in the loop runs; when it rejects the catch ends
\* the call
AnalyzeStore(ok) ==
  /\ analyzeCall # None
  /\ LET u == analyzeCall.userId
         memory == Head(analyzeCall.memories)
     IN IF ok
        THEN /\ user_memories' = [user_memories EXCEPT ![u] = StoreMemory(@, memory, now)]
             /\ analyzeCall' = IF Len(analyzeCall.memories) = 1 THEN None
                               ELSE [analyzeCall EXCEPT !.memories = Tail(@)]
        ELSE /\ analyzeCall' = None
             /\ UNCHANGED user_memories
  /\ UNCHANGED <<importanceCall, cleanupCall, relevantCall, lastEviction>>
  /\ UNCHANGED <<now, dedupVars, rateVars, procs, processedMessageIds, messages,
                 exceptMem>>

\* ---- storeSpecificMemory and its callers
\* storeSpecificMemory(userId, key, value, type, importance): a rejected
\* storeMemory is caught
StoreSpecificMemory(userId, memory, ok) ==
  /\ user_memories' = IF ok
                      THEN [user_memories EXCEPT ![userId] = StoreMemory(@, memory, now)]
                      ELSE user_memories
  /\ UNCHANGED <<importanceCall, analyzeCall, cleanupCall, relevantCall, lastEviction>>
  /\ UNCHANGED <<now, dedupVars, rateVars, procs, processedMessageIds, messages,
                 exceptMem>>

\* handleSpecialCommands, '!remember <text>': the memory it stores
ManualMemory(memoryText, time) ==
  Memory("manual_" \o ToString(time), memoryText, "important", 8)

\* the store of the '!remember' command
RememberCommand(userId, memoryText, ok) ==
  StoreSpecificMemory(userId, ManualMemory(memoryText, now), ok)

\* a parameter that is absent or '' is falsy, and so is the number 0
GivenText(params, name) == name \in DOMAIN params /\ params[name] # ""
GivenNumber(params, name) == name \in DOMAIN params /\ params[name] # 0

\* MemoryTool.validateParams for the action 'store'
ValidStore(params) ==
  /\ GivenText(params, "memoryKey")
  /\ GivenText(params, "memoryValue")
  /\ ~(GivenNumber(params, "importance")
         /\ (params.importance < 1 \/ params.importance > 10))

\* MemoryTool.execute: memoryType = 'fact' and importance = 5 when absent
ToolMemory(params) ==
  Memory(params.memoryKey, params.memoryValue,
         IF "memoryType" \in DOMAIN params THEN params.memoryType ELSE "fact",
         IF "importance" \in DOMAIN params THEN params.importance ELSE 5)

\* the parameters the completion service gives the memory tool
ToolStores ==
  {[action |-> "store", memoryKey |-> "fact_i_am_maybe_shy", memoryValue |-> "shy",
    importance |-> 9],
   [action |-> "store", memoryKey |-> "mood", memoryValue |-> "sad",
    memoryType |-> "mood", importance |-> 0],
   [action |-> "store", memoryKey |-> "mood", memoryValue |-> "sad",
    memoryType |-> "fact", importance |-> 11],
   [action |-> "store", memoryKey |-> "mood", memoryValue |-> ""]}

\* the stores of the memory tool while cleanupMemories runs: three keys, one
\* of them with a low and with a high importance
CleanupStores ==
  {[action |-> "store", memoryKey |-> "color", memoryValue |-> "blue",
    importance |-> i] : i \in {3, 9}}
    \cup {[action |-> "store", memoryKey |-> k, memoryValue |-> "x",
            importance |-> 3] : k \in {"pet", "town"}}

\* the memory tool called with action 'store'
MemoryToolStore(userId, params, ok) ==
  IF ValidStore(params)
  THEN StoreSpecificMemory(userId, ToolMemory(params), ok)
  ELSE UNCHANGED vars

\* ---- clearUserMemories
\* '!clearmemory': DELETE FROM user_memories WHERE user_id = ?
ClearUserMemories(userId, ok) ==
  /\ user_memories' = IF ok THEN [user_memories EXCEPT ![userId] = {}]
                      ELSE user_memories
  /\ UNCHANGED <<importanceCall, analyzeCall, cleanupCall, relevantCall, lastEviction>>
  /\ UNCHANGED <<now, dedupVars, rateVars, procs, processedMessageIds, messages,
                 exceptMem>>

\* ---- cleanupMemories
CleanupLimit == 1000
ProtectedImportance == 7

\* cleanupMemories(userId, maxMemories) up to its first await
CleanupMemories(userId, maxMemories) ==
  /\ cleanupCall = None
  /\ cleanupCall' = [userId |-> userId, maxMemories |-> maxMemories, pc |-> "read",
                     toDelete |-> <<>>]
  /\ UNCHANGED <<importanceCall, analyzeCall, relevantCall, lastEviction>>
  /\ UNCHANGED <<now, dedupVars, rateVars, pipeVars, exceptMem>>

\* getUserMemories(userId, 1000) resolves or rejects; toDelete is
\* allMemories.slice(maxMemories), of which the loop passes over the memories
\* of importance 7 and more
CleanupRead(ok) ==
  /\ cleanupCall # None
  /\ cleanupCall.pc = "read"
  /\ IF ok
     THEN \E all \in Orderings(user_memories[cleanupCall.userId]) :
            LET allMemories == Take(all, CleanupLimit)
                toDelete ==
                  IF Len(allMemories) <= cleanupCall.maxMemories THEN <<>>
                  ELSE SelectSeq(SubSeq(allMemories, cleanupCall.maxMemories + 1,
                                        Len(allMemories)),
                                 LAMBDA memory : memory.importance < ProtectedImportance)
            IN cleanupCall' = IF toDelete = <<>> THEN None
                              ELSE [cleanupCall EXCEPT !.pc = "delete",
                                                       !.toDelete = toDelete]
     ELSE cleanupCall' = None
  /\ UNCHANGED <<importanceCall, analyzeCall, relevantCall, lastEviction>>
  /\ UNCHANGED <<now, dedupVars, rateVars, pipeVars, exceptMem>>

\* the place of a row in the table: the rows that are not ranked after it
PositionOf(rows, row) == Cardinality({r \in rows : ~RankedBefore(row, r)})

\* the deleteMemory awaited in the loop runs: DELETE FROM user_memories WHERE
\* user_id = ? AND memory_key = ?; when it rejects the catch ends the call
CleanupDelete(ok) ==
  /\ cleanupCall # None
  /\ cleanupCall.pc = "delete"
  /\ LET u == cleanupCall.userId
         key == Head(cleanupCall.toDelete).key
         held == {r \in user_memories[u] : r.key = key}
     IN IF ok
        THEN /\ user_memories' = [user_memories EXCEPT ![u] = @ \ held]
             /\ lastEviction' =
                  [userId |-> u, key |-> key,
                   evicted |-> IF held = {} THEN None ELSE CHOOSE r \in held : TRUE,
                   position |-> IF held = {} THEN 0
                                ELSE PositionOf(user_memories[u], CHOOSE r \in held : TRUE),
                   maxMemories |-> cleanupCall.maxMemories]
             /\ cleanupCall' = IF Len(cleanupCall.toDelete) = 1 THEN None
                               ELSE [cleanupCall EXCEPT !.toDelete = Tail(@)]
        ELSE /\ cleanupCall' = None
             /\ UNCHANGED <<user_memories, lastEviction>>
  /\ UNCHANGED <<importanceCall, analyzeCall, relevantCall>>
  /\ UNCHANGED <<now, dedupVars, rateVars, procs, processedMessageIds, messages,
                 exceptMem>>

\* ---- cleanupUserMemories
\* the maxMemories cleanupUserMemories gives cleanupMemories
PeriodicKeep == 150

\* the rows cleanupMemories(userId, maxMemories) is to delete: those of an
\* importance below 7 that at least maxMemories rows are ranked before
PolicyMarks(rows, maxMemories) ==
  {r \in rows : /\ r.importance < ProtectedImportance
                /\ Cardinality({q \in rows : RankedBefore(q, r)}) >= maxMemories}

\* sqlite3 Database#all(sql) called without a callback: the statement is
\* queued and the Database object itself is returned, for chaining
DatabaseAll == [type |-> "Database"]

\* for (const {user_id} of allMemories): only arrays and other iterables can
\* be iterated, anything else raises a TypeError
Iterable(value) == value.type = "array"

\* the daily timer calls cleanupUserMemories, which awaits db.all(...)
CleanupUserMemories ==
  /\ IF periodicRun = None THEN TRUE ELSE periodicRun.pc = "done"
  /\ periodicRun' = [pc |-> "all", allMemories |-> None, raised |-> FALSE,
                     left |-> None]
  /\ UNCHANGED <<now, dedupVars, rateVars, pipeVars, exceptPeriodic>>

\* the await hands back what db.all returned and the loop over it begins: the
\* TypeError of a value that cannot be iterated goes to the catch, which logs
\* it; left is what the policy marks in the table when the run ends
CleanupUserMemoriesLoop ==
  /\ IF periodicRun = None THEN FALSE ELSE periodicRun.pc = "all"
  /\ ~Iterable(DatabaseAll)
  /\ periodicRun' = [pc |-> "done", allMemories |-> DatabaseAll, raised |-> TRUE,
                     left |-> [u \in Users |->
                                 {r.key : r \in PolicyMarks(user_memories[u],
                                                            PeriodicKeep)}]]
  /\ UNCHANGED <<now, dedupVars, rateVars, pipeVars, exceptPeriodic>>

InitPeriodicVars == periodicRun = None

\* ---- getRelevantMemories
RelevantLimit == 100

\* String.prototype.split(/\\s+/): the pieces between the runs of white space,
\* an empty piece before a leading and after a trailing run
RECURSIVE Split(_, _)
Split(t, piece) ==
  IF t = "" THEN <<piece>>
  ELSE IF CharAt(t, 1) \notin WhiteSpace
  THEN Split(SubSeq(t, 2, Len(t)), piece \o CharAt(t, 1))
  ELSE IF Len(t) > 1 /\ CharAt(t, 2) \in WhiteSpace
  THEN Split(SubSeq(t, 2, Len(t)), piece)
  ELSE <<piece>> \o Split(SubSeq(t, 2, Len(t)), "")

\* calculateRelevance(memory, message), kept as the count of matching words
\* and the number of words of the memory
CalculateRelevance(value, message) ==
  LET memoryWords == Split(ToLowerCase(value), "")
      messageWords == Split(ToLowerCase(message), "")
      matching == {i \in DOMAIN memoryWords :
                     \E j \in DOMAIN messageWords :
                       \/ Includes(messageWords[j], memoryWords[i])
                       \/ Includes(memoryWords[i], messageWords[j])}
  IN [matchCount |-> Cardinality(matching), words |-> Len(memoryWords)]

\* the calls of getRelevantMemories: the message of an event with the limit
\* 8, and '' with the limit 5 for the '!memory' command
RelevantCalls == {<<"tea", 8>>, <<"I play chess", 8>>, <<"", 5>>}

\* the values extraction stores, and calculateRelevance over them and the
\* messages, worked out once
ExtractedValues ==
  UNION {{Extraction[c].memories[i].value : i \in DOMAIN Extraction[c].memories}
           \cup {Extraction[c].trimmed} : c \in MemoryTexts}
Relevance ==
  [value \in ExtractedValues, message \in {call[1] : call \in RelevantCalls} |->
     CalculateRelevance(value, message)]

\* relevanceScore * memory.importance
RelevanceScore(memory, message) ==
  [matchCount |-> Relevance[memory.value, message].matchCount,
   words |-> Relevance[memory.value, message].words,
   importance |-> memory.importance]

\* a.relevance_score < b.relevance_score
ScoreLess(a, b) ==
  a.matchCount * a.importance * b.words < b.matchCount * b.importance * a.words

\* scoredMemories.sort((a, b) => b.relevance_score - a.relevance_score): the
\* sort is stable, memories of equal score keep the order they came in
RECURSIVE SortByScore(_, _)
SortByScore(memories, message) ==
  IF memories = <<>> THEN <<>>
  ELSE LET last == memories[Len(memories)]
           front == SortByScore(SubSeq(memories, 1, Len(memories) - 1), message)
           ahead == {i \in DOMAIN front :
                       ~ScoreLess(RelevanceScore(front[i], message),
                                  RelevanceScore(last, message))}
           n == Cardinality(ahead)
       IN SubSeq(front, 1, n) \o <<last>> \o SubSeq(front, n + 1, Len(front))

\* getRelevantMemories(userId, currentMessage, limit): getUserMemories(userId,
\* 100) resolves or rejects
GetRelevantMemories(userId, currentMessage, limit, ok) ==
  /\ \E all \in Orderings(user_memories[userId]) :
       LET allMemories == Take(all, RelevantLimit)
       IN relevantCall' =
            [userId |-> userId, currentMessage |-> currentMessage,
             allMemories |-> IF ok THEN allMemories ELSE <<>>,
             result |-> IF ~ok THEN <<>>
                        ELSE IF currentMessage = "" THEN Take(allMemories, limit)
                        ELSE Take(SortByScore(allMemories, currentMessage), limit)]
  /\ UNCHANGED <<importanceCall, analyzeCall, cleanupCall, lastEviction>>
  /\ UNCHANGED <<now, dedupVars, rateVars, pipeVars, exceptMem>>

MaxNowMemory == 1

\* time passes
AdvanceMemory ==
  /\ now < MaxNowMemory
  /\ now' = now + 1
  /\ UNCHANGED <<dedupVars, rateVars, pipeVars, extVars>>

\* the maxMemories cleanupMemories is called with
MaxMemoriesGiven == {1, 2}

\* the contents calculateImportance is given: one or two of these phrases
Phrases == {"love", "Hate", "never forget", "never", "LIKE", "usually", "homework",
            "maybe", "sometimes", "could", "tea", "Important"}
ImportanceTexts == Phrases \cup {a \o " " \o b : a, b \in Phrases}

CalculateImportanceCalled(content) ==
  /\ importanceCall' = [content |-> content, result |-> CalculateImportance(content)]
  /\ UNCHANGED <<analyzeCall, cleanupCall, relevantCall, lastEviction>>
  /\ UNCHANGED <<now, dedupVars, rateVars, pipeVars, exceptMem>>

InitMemVars ==
  /\ importanceCall = None
  /\ analyzeCall = None
  /\ cleanupCall = None
  /\ relevantCall = None
  /\ lastEviction = None

\* ============================================================ User context
\* cacheTimeout (30 minutes) and the interval of the cleanup timer (5 minutes),
\* in cleanup intervals
CacheTimeout == 6
MaxCacheClock == 7

ProfileUsers == {"u1"}
ProfileCallIds == {"g1", "g2"}

\* the profile barkleClient.getUserProfile builds from the answer it gets at
\* time, and the entry userCache.set stores then
Profile(time) == [fetchedAt |-> time]
CacheEntry(time) == [profile |-> Profile(time), timestamp |-> time]

\* null, as a profile
NoProfile == [null |-> TRUE]

\* cached && (Date.now() - cached.timestamp) < this.cacheTimeout
CacheValid(cached, time) ==
  cached # None /\ (time - cached.timestamp) < CacheTimeout

\* the catch of getUserProfile: the cached profile if there is one, else null
ExpiredOrNull(cached) == IF cached # None THEN cached.profile ELSE NoProfile

IdleProfileCall ==
  [pc |-> "idle", userId |-> NULL, cached |-> None, known |-> None,
   fetch |-> "none", result |-> None]

\* getUserProfile(userId) up to the await of the fetch: known is the profile
\* fetched last before the call
GetUserProfile(c, userId) ==
  /\ profileCalls[c].pc \in {"idle", "done"}
  /\ LET cached == userCache[userId]
         call == [IdleProfileCall EXCEPT !.userId = userId, !.cached = cached,
                                         !.known = lastProfile[userId]]
     IN profileCalls' = [profileCalls EXCEPT ![c] =
          IF CacheValid(cached, cacheClock)
          THEN [call EXCEPT !.pc = "done", !.result = cached.profile]
          ELSE [call EXCEPT !.pc = "fetch"]]
  /\ UNCHANGED <<cacheClock, userCache, lastProfile>>
  /\ UNCHANGED <<now, dedupVars, rateVars, pipeVars, exceptProfile>>

\* barkleClient.getUserProfile resolves or rejects
ProfileFetch(c, ok) ==
  /\ profileCalls[c].pc = "fetch"
  /\ LET call == profileCalls[c]
         u == call.userId
     IN IF ok
        THEN /\ userCache' = [userCache EXCEPT ![u] = CacheEntry(cacheClock)]
             /\ lastProfile' = [lastProfile EXCEPT ![u] = Profile(cacheClock)]
             /\ profileCalls' = [profileCalls EXCEPT ![c] =
                  [call EXCEPT !.pc = "done", !.fetch = "resolved",
                               !.result = Profile(cacheClock)]]
        ELSE /\ profileCalls' = [profileCalls EXCEPT ![c] =
                  [call EXCEPT !.pc = "done", !.fetch = "rejected",
                               !.result = ExpiredOrNull(call.cached)]]
             /\ UNCHANGED <<userCache, lastProfile>>
  /\ UNCHANGED cacheClock
  /\ UNCHANGED <<now, dedupVars, rateVars, pipeVars, exceptProfile>>

\* cleanupCache at time: the entries older than cacheTimeout are deleted
CleanupCache(cache, time) ==
  [u \in DOMAIN cache |->
     IF cache[u] # None /\ (time - cache[u].timestamp) > CacheTimeout
     THEN None ELSE cache[u]]

\* the next interval of the timer the constructor of MessageHandler sets is
\* over, and its callback runs cleanupCache
CleanupInterval ==
  /\ cacheClock < MaxCacheClock
  /\ cacheClock' = cacheClock + 1
  /\ userCache' = CleanupCache(userCache, cacheClock')
  /\ UNCHANGED <<profileCalls, lastProfile>>
  /\ UNCHANGED <<now, dedupVars, rateVars, pipeVars, exceptProfile>>

\* getUserContext: the context of a profile, or the placeholder
GetUserContext(profile) ==
  IF profile = NoProfile
  THEN [username |-> "unknown", profile |-> NoProfile]
  ELSE [username |-> "user", profile |-> profile]

InitProfileVars ==
  /\ cacheClock = 0
  /\ userCache = [u \in AllUsers |-> None]
  /\ profileCalls = [c \in ProfileCallIds |-> IdleProfileCall]
  /\ lastProfile = [u \in AllUsers |-> None]

\* ========================================================= Reply pipeline
\* handleSpecialCommands: the command a stripped text is taken for, in the
\* order of its tests
CommandOf(text) ==
  CASE text = "!cc" -> "cc"
    [] text = "!memory" -> "memory"
    [] text = "!clearmemory" -> "clearmemory"
    [] text = "!remember x" -> "remember"
    [] text = "help" -> "help"
    [] OTHER -> "none"

\* the commands whose first awaited call rejects on a database error
\* (clearContext, clearUserMemories); getRelevantMemories, getMemoryStatistics
\* and storeSpecificMemory catch theirs
CommandStoreCanFail(cmd) == cmd \in {"cc", "clearmemory"}

\* handleSpecialCommands, when a call of the command fails: the catch of the
\* command returns false, and the help message has no try around its send
CommandFailure(cmd) == IF cmd = "help" THEN "throw" ELSE "returnFalse"

NewProc(note, isDM, isMention) ==
  [id |-> note.id, userId |-> note.userId, isPlus |-> note.userId \in PlusUsers,
   text |-> note.text, isDM |-> isDM, isMention |-> isMention,
   pc |-> "commands", cmd |-> "none", completions |-> 0, toolBatches |-> 0,
   out |-> <<>>, stores |-> <<>>, limitRow |-> None, limitWrite |-> "none",
   secondTools |-> FALSE, fallbacks |-> 0, response |-> "none", context |-> None,
   memories |-> 0]

\* the notes and messages of the platform: m1 is written by u1, m2 by the Plus
\* user u2, m3 by the bot itself
Notes ==
  {[id |-> "m1", userId |-> "u1", text |-> t] : t \in Texts}
    \cup {[id |-> "m2", userId |-> "u2", text |-> "hello"],
          [id |-> "m3", userId |-> BotUserId, text |-> "hello"]}

\* an id names one note: a frame repeats the note an earlier frame carried
SameNote(note) ==
  \A p \in DOMAIN procs : procs[p].id = note.id => procs[p].text = note.text

\* slice(-KeepProcessedIds) keeping the first ids in place of the last
AddProcessedIdKeepsOldest(ids, id) ==
  LET added == Append(ids, id)
  IN IF Len(added) > MaxProcessedIds
     THEN SubSeq(added, 1, KeepProcessedIds)
     ELSE added

\* Set.add, then the cut to the last KeepProcessedIds when more than
\* MaxProcessedIds are held
AddProcessedId(ids, id) ==
  LET added == Append(ids, id)
  IN IF Len(added) > MaxProcessedIds
     THEN SubSeq(added, Len(added) - KeepProcessedIds + 1, Len(added))
     ELSE added

\* a frame of the notification channel with a mention or reply notification:
\* handleMessage emits 'mention' / 'reply', handleMention / handleReply call
\* processMessage(notification.note, false, true)
ReceiveNotification(kind, note) ==
  /\ Len(procs) < MaxProcs
  /\ SameNote(note)
  /\ procs' = Append(procs, NewProc(note, FALSE, TRUE))
  /\ UNCHANGED <<now, extVars, dedupVars, rateVars, processedMessageIds, messages,
                 user_memories>>

\* a timeline note frame: handleChannelMessage emits a synthetic 'mention' when
\* the text mentions the bot, and then 'timelineNote', whose handler calls
\* processMessage when the note mentions the bot and is not the bot's own
ReceiveTimelineNote(note, mentionsBot) ==
  LET synthetic == IF mentionsBot
                   THEN <<NewProc(note, FALSE, TRUE)>> ELSE <<>>
      fallback == IF mentionsBot /\ note.userId # BotUserId
                  THEN <<NewProc(note, FALSE, TRUE)>> ELSE <<>>
  IN /\ Len(procs) + Len(synthetic) + Len(fallback) <= MaxProcs
     /\ SameNote(note)
     /\ procs' = procs \o synthetic \o fallback
     /\ UNCHANGED <<now, extVars, dedupVars, rateVars, processedMessageIds, messages,
                    user_memories>>

\* handleDirectMessage(message): the bot's own message and an id that is held
\* are skipped; else the id is added, the set is cut, and processMessage is
\* called, with no await before the call
HandleDirectMessage(message) ==
  /\ Len(procs) < MaxProcs
  /\ SameNote(message)
  /\ IF message.userId = BotUserId \/ message.id \in RowsOf(processedMessageIds)
     THEN UNCHANGED <<procs, processedMessageIds>>
     ELSE /\ processedMessageIds' = AddProcessedId(processedMessageIds, message.id)
          /\ procs' = Append(procs, NewProc(message, TRUE, FALSE))

\* a 'message' or 'messagingMessage' frame: handleDirectMessage
ReceiveDirectMessage(kind, message) ==
  /\ HandleDirectMessage(message)
  /\ UNCHANGED <<now, extVars, dedupVars, rateVars, messages, user_memories>>

\* the frames of direct messages handled are counted up to this number
MaxDelivered == 3

\* the same frame, kept in the record of the frames handled
DirectMessageFrame(kind, message) ==
  /\ Len(dmDelivered) < MaxDelivered
  /\ HandleDirectMessage(message)
  /\ dmDelivered' = Append(dmDelivered, [kind |-> kind, id |-> message.id])
  /\ UNCHANGED <<now, dedupVars, rateVars, messages, user_memories, exceptDirect>>

InitDirectVars == dmDelivered = <<>>

At(p, pc) == p \in DOMAIN procs /\ procs[p].pc = pc

Sent(proc, kind) == [proc EXCEPT !.out = Append(@, kind)]

\* processMessage up to the tests of handleSpecialCommands
Commands(p) ==
  /\ At(p, "commands")
  /\ LET cmd == CommandOf(procs[p].text)
     IN procs' = [procs EXCEPT ![p].cmd = cmd,
                               ![p].pc = CASE cmd = "none" -> "limit"
                                           [] cmd = "help" -> "commandSend"
                                           [] OTHER -> "commandStore"]
  /\ UNCHANGED <<now, extVars, dedupVars, rateVars, processedMessageIds, messages,
                 user_memories>>

\* the database call of a command: clearContext, getRelevantMemories and
\* getMemoryStatistics, clearUserMemories, storeSpecificMemory
CommandStore(p, ok) ==
  /\ At(p, "commandStore")
  /\ ok \/ procs[p].cmd \in {"cc", "clearmemory", "remember"}
  /\ LET proc == procs[p]
         u == proc.userId
     IN /\ procs' = [procs EXCEPT
             ![p].pc =
               IF ok \/ ~CommandStoreCanFail(proc.cmd) THEN "commandSend"
               ELSE IF CommandFailure(proc.cmd) = "throw" THEN "apology"
               ELSE "limit",
             ![p].memories = IF ok /\ proc.cmd = "remember" THEN @ + 1 ELSE @]
        /\ messages' = IF ok /\ proc.cmd = "cc"
                       THEN [messages EXCEPT ![u] = <<>>] ELSE messages
        /\ user_memories' =
             CASE ok /\ proc.cmd = "clearmemory" -> [user_memories EXCEPT ![u] = {}]
               [] ok /\ proc.cmd = "remember" ->
                    [user_memories EXCEPT ![u] =
                       StoreMemory(@, ManualMemory("x", now), now)]
               [] OTHER -> user_memories
  /\ UNCHANGED <<now, extVars, dedupVars, rateVars, processedMessageIds>>

\* the reply of a command is sent
CommandSend(p, ok) ==
  /\ At(p, "commandSend")
  /\ LET proc == procs[p]
     IN procs' = [procs EXCEPT ![p] =
          IF ok THEN [Sent(proc, "command") EXCEPT !.pc = "done"]
          ELSE IF CommandFailure(proc.cmd) = "throw"
          THEN [proc EXCEPT !.pc = "apology"]
          ELSE [proc EXCEPT !.pc = "limit"]]
  /\ UNCHANGED <<now, extVars, dedupVars, rateVars, processedMessageIds, messages,
                 user_memories>>

\* processMessage calls checkMessageLimit(note.userId, userInfo.isPlus)
LimitCheck(p) ==
  /\ At(p, "limit")
  /\ procs' = [procs EXCEPT ![p].pc =
       IF CheckMessageLimitEntry(procs[p].isPlus) = "unlimited"
       THEN "context" ELSE "limitGet"]
  /\ UNCHANGED <<now, extVars, dedupVars, rateVars, processedMessageIds, messages,
                 user_memories>>

LimitGet(p) ==
  /\ At(p, "limitGet")
  /\ procs' = [procs EXCEPT ![p].pc = "limitDecide",
                            ![p].limitRow = message_limits[procs[p].userId]]
  /\ UNCHANGED <<now, extVars, dedupVars, rateVars, processedMessageIds, messages,
                 user_memories>>

LimitDecide(p) ==
  /\ At(p, "limitDecide")
  /\ LET d == CheckMessageLimitDecision(procs[p].limitRow, now)
     IN procs' = [procs EXCEPT ![p].limitWrite = d.write,
                               ![p].pc = IF ProcessLimitResult(d.result) = "limitNotice"
                                         THEN "limitNotice" ELSE "context"]
  /\ UNCHANGED <<now, extVars, dedupVars, rateVars, processedMessageIds, messages,
                 user_memories>>

\* the statement checkMessageLimit handed to db.run runs
LimitRun(p) ==
  /\ p \in DOMAIN procs
  /\ procs[p].limitWrite # "none"
  /\ message_limits' = [message_limits EXCEPT ![procs[p].userId] =
       RunLimitStatement(@, procs[p].limitWrite, now)]
  /\ procs' = [procs EXCEPT ![p].limitWrite = "none"]
  /\ UNCHANGED <<now, extVars, dedupVars, rateCalls, rateWindow, processedMessageIds,
                 messages, user_memories>>

\* the limit notice is sent
LimitNotice(p, ok) ==
  /\ At(p, "limitNotice")
  /\ procs' = [procs EXCEPT ![p] =
       IF ok THEN [Sent(procs[p], "limit") EXCEPT !.pc = "done"]
       ELSE [procs[p] EXCEPT !.pc = "apology"]]
  /\ UNCHANGED <<now, extVars, dedupVars, rateVars, processedMessageIds, messages,
                 user_memories>>

\* ---- user context and memories
\* the limit processMessage gives getRelevantMemories
RelevantGiven == 8

\* the storeMemory calls of analyzeAndStoreMemories, one after the other
RECURSIVE StoreAll(_, _, _)
StoreAll(rows, memories, time) ==
  IF memories = <<>> THEN rows
  ELSE StoreAll(StoreMemory(rows, Head(memories), time), Tail(memories), time)

\* getUserProfile(userId) as processMessage awaits it, the fetch resolving or
\* rejecting: the profile returned, where it came from, and the cache left
UserProfile(cache, userId, time, ok) ==
  LET cached == cache[userId]
  IN IF CacheValid(cached, time)
     THEN [profile |-> cached.profile, refresh |-> "cache", fetched |-> FALSE]
     ELSE IF ok
     THEN [profile |-> Profile(time), refresh |-> "resolved", fetched |-> TRUE]
     ELSE [profile |-> ExpiredOrNull(cached), refresh |-> "rejected",
           fetched |-> FALSE]

\* analyzeAndStoreMemories without its try: a rejected storeMemory is thrown
AnalyzeAndStoreNoCatch(ok) == IF ok THEN "returns" ELSE "throws"

\* analyzeAndStoreMemories: its catch returns [] when a storeMemory rejects
AnalyzeAndStoreCatch(ok) == "returns"

\* getRelevantMemories(userId, messageText, 8): the number of memories it
\* returns, [] from its catch when getUserMemories rejects
RelevantCount(rows, ok) ==
  IF ~ok THEN 0
  ELSE IF Cardinality(rows) > RelevantGiven THEN RelevantGiven
  ELSE Cardinality(rows)

\* what processMessage holds after the three calls
ContextRecord(profile, extraction, retrieval, memories) ==
  [username |-> GetUserContext(profile.profile).username,
   profile |-> profile.profile, refresh |-> profile.refresh,
   extraction |-> extraction, retrieval |-> retrieval, memories |-> memories]

\* getUserContext(note.userId)
ContextProfile(p, ok) ==
  /\ At(p, "context")
  /\ LET u == procs[p].userId
         profile == UserProfile(userCache, u, cacheClock, ok)
     IN /\ ok \/ profile.refresh = "rejected"
        /\ procs' = [procs EXCEPT ![p].pc = "extract",
                                  ![p].context =
                                     ContextRecord(profile, "none", "none", 0)]
        /\ userCache' = IF profile.fetched
                        THEN [userCache EXCEPT ![u] = CacheEntry(cacheClock)]
                        ELSE userCache
        /\ lastProfile' = IF profile.fetched
                          THEN [lastProfile EXCEPT ![u] = profile.profile]
                          ELSE lastProfile
  /\ UNCHANGED <<cacheClock, profileCalls>>
  /\ UNCHANGED <<now, dedupVars, rateVars, processedMessageIds, messages,
                 user_memories, exceptProfile>>

\* analyzeAndStoreMemories(note.userId, messageText): the first stored of the
\* memories are stored, and the storeMemory after them rejects if there is one
ContextExtract(p, stored) ==
  /\ At(p, "extract")
  /\ LET u == procs[p].userId
         memories == ExtractMemories(procs[p].text, now)
         ok == stored = Len(memories)
     IN /\ stored \in 0..Len(memories)
        /\ user_memories' = [user_memories EXCEPT ![u] =
             StoreAll(@, SubSeq(memories, 1, stored), now)]
        /\ procs' = [procs EXCEPT
             ![p].pc = IF AnalyzeAndStoreCatch(ok) = "returns"
                       THEN "retrieve" ELSE "apology",
             ![p].context.extraction = IF ok THEN "stored" ELSE "rejected",
             ![p].memories = @ + stored]
  /\ UNCHANGED <<now, extVars, dedupVars, rateVars, processedMessageIds, messages>>

\* getRelevantMemories, formatMemoriesForContext and the first read of the
\* history, which returns [] when the database fails
ContextMemories(p, ok) ==
  /\ At(p, "retrieve")
  /\ procs' = [procs EXCEPT
       ![p].pc = "storeUser",
       ![p].context.retrieval = IF ok THEN "resolved" ELSE "rejected",
       ![p].context.memories = RelevantCount(user_memories[procs[p].userId], ok)]
  /\ UNCHANGED <<now, extVars, dedupVars, rateVars, processedMessageIds, messages,
                 user_memories>>

\* the three calls in one step, when none of their awaited calls fails
Context(p) ==
  /\ At(p, "context")
  /\ LET u == procs[p].userId
         profile == UserProfile(userCache, u, cacheClock, TRUE)
         rows == StoreAll(user_memories[u], ExtractMemories(procs[p].text, now), now)
     IN /\ procs' = [procs EXCEPT ![p].pc = "storeUser",
                                  ![p].context =
                                     ContextRecord(profile, "stored", "resolved",
                                                   RelevantCount(rows, TRUE)),
                                  ![p].memories =
                                     @ + Len(ExtractMemories(procs[p].text, now))]
        /\ userCache' = IF profile.fetched
                        THEN [userCache EXCEPT ![u] = CacheEntry(cacheClock)]
                        ELSE userCache
        /\ lastProfile' = IF profile.fetched
                          THEN [lastProfile EXCEPT ![u] = profile.profile]
                          ELSE lastProfile
        /\ user_memories' = [user_memories EXCEPT ![u] = rows]
  /\ UNCHANGED <<cacheClock, profileCalls>>
  /\ UNCHANGED <<now, dedupVars, rateVars, processedMessageIds, messages,
                 exceptProfile>>

\* storeMessages(note.userId, [{role: 'user', content: messageText}])
StoreUserMessage(p, ok) ==
  /\ At(p, "storeUser")
  /\ procs' = [procs EXCEPT ![p].pc = IF ok THEN "agent" ELSE "apology",
                            ![p].stores = IF ok THEN Append(@, "user") ELSE @]
  /\ messages' = IF ok
                 THEN [messages EXCEPT ![procs[p].userId] =
                         Append(@, [role |-> "user", content |-> procs[p].text,
                                    event |-> p])]
                 ELSE messages
  /\ UNCHANGED <<now, extVars, dedupVars, rateVars, processedMessageIds, user_memories>>

\* ---- the values the completion client hands back
\* a chat message of the completion service: content is a text or null,
\* tool_calls is a non-empty array or absent
Message(content, tool_calls) ==
  [type |-> "object", content |-> content, tool_calls |-> tool_calls]

Messages == {Message(c, t) : c \in {"text", NULL}, t \in BOOLEAN}

\* the answers of a completion service that sends a text or asks for tools
TextOrToolCalls == {Message("text", FALSE), Message(NULL, TRUE)}

StringValue == [type |-> "string", content |-> "text", tool_calls |-> FALSE]
NullValue == [type |-> "null", content |-> NULL, tool_calls |-> FALSE]

\* AvuniteClient.generateResponseWithTools: without tool_calls the content
\* (message.content?.trim() || message.content), else the message
GenerateResponseWithTools(message) ==
  IF ~message.tool_calls
  THEN IF message.content = NULL THEN NullValue ELSE StringValue
  ELSE message

\* value.content || value
ContentOr(value) ==
  IF value.type = "object" /\ value.content # NULL THEN StringValue ELSE value

\* processMessage: response.substring(0, 100) raises a TypeError unless the
\* response is a string
UseOfResponse(response) == IF response.type = "string" THEN "send" ELSE "apology"

\* generateAgentResponse: the completion request with the tool catalog; a
\* failed request is answered by generateResponse with a message of fixed text
AgentRequest(p, message) ==
  /\ At(p, "agent")
  /\ LET aiResponse == GenerateResponseWithTools(message)
         returned == ContentOr(aiResponse)
     IN procs' = [procs EXCEPT ![p] =
          IF aiResponse.type = "null"
          THEN [@ EXCEPT !.completions = @ + 1, !.pc = "agentFallback"]
          ELSE IF ~aiResponse.tool_calls
          THEN [@ EXCEPT !.completions = @ + 1, !.response = returned.type,
                         !.pc = UseOfResponse(returned)]
          ELSE [@ EXCEPT !.completions = @ + 1, !.pc = "tools"]]
  /\ UNCHANGED <<now, extVars, dedupVars, rateVars, processedMessageIds, messages,
                 user_memories>>

\* toolManager.executeToolCalls
ExecuteToolCalls(p) ==
  /\ At(p, "tools")
  /\ procs' = [procs EXCEPT ![p].toolBatches = @ + 1, ![p].pc = "agentFinal"]
  /\ UNCHANGED <<now, extVars, dedupVars, rateVars, processedMessageIds, messages,
                 user_memories>>

\* the completion request with the tool results: finalResponse.content ||
\* finalResponse is returned, tool calls in the answer are not looked at
AgentFinalRequest(p, message) ==
  /\ At(p, "agentFinal")
  /\ LET returned == ContentOr(message)
     IN procs' = [procs EXCEPT ![p].completions = @ + 1,
                               ![p].secondTools = message.tool_calls,
                               ![p].response = returned.type,
                               ![p].pc = UseOfResponse(returned)]
  /\ UNCHANGED <<now, extVars, dedupVars, rateVars, processedMessageIds, messages,
                 user_memories>>

\* the catch of generateAgentResponse: generateResponseFromText without tools,
\* whose message is returned as it is
AgentFallback(p, message) ==
  /\ At(p, "agentFallback")
  /\ procs' = [procs EXCEPT ![p].completions = @ + 1,
                            ![p].fallbacks = @ + 1,
                            ![p].response = message.type,
                            ![p].pc = UseOfResponse(message)]
  /\ UNCHANGED <<now, extVars, dedupVars, rateVars, processedMessageIds, messages,
                 user_memories>>

\* ---- the message lists of the completion requests
\* a message of a request; event names the invocation whose text the message
\* carries, which the service does not see
RequestMessage(role, content, event) ==
  [role |-> role, content |-> content, event |-> event]

\* getConversationHistory(userId) as processMessage calls it: the rows of the
\* user in id order as {role, content}, and [] when the fetch rejects
ConversationHistory(rows, ok) ==
  IF ok /\ rows # <<>>
  THEN [i \in DOMAIN rows |->
          RequestMessage(rows[i].role, rows[i].content, rows[i].event)]
  ELSE <<>>

\* generateResponseFromText: [...context, {role: 'user', content: text}]
GenerateResponseFromText(text, context, event) ==
  Append(context, RequestMessage("user", text, event))

\* generateAgentResponse: toolMessages
ToolMessages(text, context, event) ==
  context \o <<RequestMessage("user", text, event),
               RequestMessage("assistant", "", event),
               RequestMessage("tool", "result", event)>>

\* updatedHistory of an invocation that has made its first request
UpdatedHistory(p) ==
  requestLog[CHOOSE i \in DOMAIN requestLog : requestLog[i].event = p].context

\* processMessage reads the history again (updatedHistory) and
\* generateAgentResponse makes the request with the tool catalog
AgentRequestSent(p, ok, message) ==
  /\ At(p, "agent")
  /\ LET aiResponse == GenerateResponseWithTools(message)
         returned == ContentOr(aiResponse)
         context == ConversationHistory(messages[procs[p].userId], ok)
     IN /\ procs' = [procs EXCEPT ![p] =
             IF ~aiResponse.tool_calls
             THEN [@ EXCEPT !.completions = @ + 1, !.response = returned.type,
                            !.pc = UseOfResponse(returned)]
             ELSE [@ EXCEPT !.completions = @ + 1, !.pc = "tools"]]
        /\ requestLog' = Append(requestLog,
             [event |-> p, context |-> context,
              messages |-> GenerateResponseFromText(procs[p].text, context, p)])
  /\ UNCHANGED <<now, dedupVars, rateVars, processedMessageIds, messages,
                 user_memories, exceptRequest>>

\* the request with the tool results
AgentFinalRequestSent(p, message) ==
  /\ At(p, "agentFinal")
  /\ LET returned == ContentOr(message)
     IN procs' = [procs EXCEPT ![p].completions = @ + 1,
                               ![p].secondTools = message.tool_calls,
                               ![p].response = returned.type,
                               ![p].pc = UseOfResponse(returned)]
  /\ requestLog' = Append(requestLog,
       [event |-> p, context |-> UpdatedHistory(p),
        messages |-> ToolMessages(procs[p].text, UpdatedHistory(p), p)])
  /\ UNCHANGED <<now, dedupVars, rateVars, processedMessageIds, messages,
                 user_memories, exceptRequest>>

InitRequestVars == requestLog = <<>>

\* the reply is sent, and a failed send is not noticed
SendReplyIgnoresFailure(p, ok) ==
  /\ At(p, "send")
  /\ procs' = [procs EXCEPT ![p] =
       IF ok THEN [Sent(procs[p], "reply") EXCEPT !.pc = "storeAssistant"]
       ELSE [procs[p] EXCEPT !.pc = "storeAssistant"]]
  /\ UNCHANGED <<now, extVars, dedupVars, rateVars, processedMessageIds, messages,
                 user_memories>>

\* the reply is sent
SendReply(p, ok) ==
  /\ At(p, "send")
  /\ procs' = [procs EXCEPT ![p] =
       IF ok THEN [Sent(procs[p], "reply") EXCEPT !.pc = "storeAssistant"]
       ELSE [procs[p] EXCEPT !.pc = "apology"]]
  /\ UNCHANGED <<now, extVars, dedupVars, rateVars, processedMessageIds, messages,
                 user_memories>>

\* storeMessages(note.userId, [{role: 'assistant', content: finalResponse}])
StoreAssistantMessage(p, ok) ==
  /\ At(p, "storeAssistant")
  /\ procs' = [procs EXCEPT ![p].pc = IF ok THEN "done" ELSE "apology",
                            ![p].stores = IF ok THEN Append(@, "assistant") ELSE @]
  /\ messages' = IF ok
                 THEN [messages EXCEPT ![procs[p].userId] =
                         Append(@, [role |-> "assistant", content |-> "reply",
                                    event |-> p])]
                 ELSE messages
  /\ UNCHANGED <<now, extVars, dedupVars, rateVars, processedMessageIds, user_memories>>

\* a catch whose failed send of the apology leaves processMessage as an
\* exception
SendApologyThrows(p, ok) ==
  /\ At(p, "apology")
  /\ procs' = [procs EXCEPT ![p] =
       IF ok THEN [Sent(procs[p], "apology") EXCEPT !.pc = "done"]
       ELSE [procs[p] EXCEPT !.pc = "raised"]]
  /\ UNCHANGED <<now, extVars, dedupVars, rateVars, processedMessageIds, messages,
                 user_memories>>

\* the catch of processMessage sends the apology; a failed send is caught and
\* logged
SendApology(p, ok) ==
  /\ At(p, "apology")
  /\ procs' = [procs EXCEPT ![p] =
       IF ok THEN [Sent(procs[p], "apology") EXCEPT !.pc = "done"]
       ELSE [procs[p] EXCEPT !.pc = "done"]]
  /\ UNCHANGED <<now, extVars, dedupVars, rateVars, processedMessageIds, messages,
                 user_memories>>

InitPipeVars ==
  /\ procs = <<>>
  /\ processedMessageIds = <<>>
  /\ messages = [u \in AllUsers |-> <<>>]
  /\ user_memories = [u \in AllUsers |-> {}]

\* ===================================================== Conversation history
MaxHistory == 3

HistoryCallIds == {"h1", "h2"}
HistoryUsers == {"u1"}
SystemPrompts == {"", "seed"}

IdleHistoryCall == [pc |-> "idle", userId |-> NULL, systemPrompt |-> "",
                    result |-> <<>>]

\* storeMessages(userId, [message]): one INSERT, the row gets the next id
StoreMessagesRows(rows, role, content) ==
  Append(rows, [role |-> role, content |-> content, event |-> 0])

\* getConversationHistory: messagesFromDB.length === 0 && systemPrompt
StoreSeed(messagesFromDB, systemPrompt) ==
  Len(messagesFromDB) = 0 /\ systemPrompt # ""

\* getConversationHistory(userId, systemPrompt) is called
GetConversationHistory(c, userId, systemPrompt) ==
  /\ historyCalls[c].pc = "idle"
  /\ historyCalls' = [historyCalls EXCEPT ![c] =
       [pc |-> "fetch", userId |-> userId, systemPrompt |-> systemPrompt,
        result |-> <<>>]]
  /\ UNCHANGED <<now, dedupVars, rateVars, pipeVars, exceptHistory>>

\* the first fetchMessagesFromDB resolves or rejects
HistoryFetch(c, ok) ==
  /\ historyCalls[c].pc = "fetch"
  /\ LET call == historyCalls[c]
         messagesFromDB == messages[call.userId]
     IN historyCalls' = [historyCalls EXCEPT ![c] =
          IF ~ok THEN [call EXCEPT !.pc = "done", !.result = <<>>]
          ELSE IF StoreSeed(messagesFromDB, call.systemPrompt)
          THEN [call EXCEPT !.pc = "store"]
          ELSE [call EXCEPT !.pc = "done", !.result = messagesFromDB]]
  /\ UNCHANGED <<now, dedupVars, rateVars, pipeVars, exceptHistory>>

\* storeMessages(userId, [{role: 'user', content: systemPrompt}])
HistoryStoreSeed(c, ok) ==
  /\ historyCalls[c].pc = "store"
  /\ LET call == historyCalls[c]
     IN /\ historyCalls' = [historyCalls EXCEPT ![c] =
             IF ok THEN [call EXCEPT !.pc = "refetch"]
             ELSE [call EXCEPT !.pc = "done", !.result = <<>>]]
        /\ messages' = IF ok
                       THEN [messages EXCEPT ![call.userId] =
                               StoreMessagesRows(@, "user", call.systemPrompt)]
                       ELSE messages
  /\ UNCHANGED <<now, dedupVars, rateVars, procs, processedMessageIds,
                 user_memories, exceptHistory>>

\* the second fetchMessagesFromDB
HistoryRefetch(c, ok) ==
  /\ historyCalls[c].pc = "refetch"
  /\ historyCalls' = [historyCalls EXCEPT ![c].pc = "done",
       ![c].result = IF ok THEN messages[historyCalls[c].userId] ELSE <<>>]
  /\ UNCHANGED <<now, dedupVars, rateVars, pipeVars, exceptHistory>>

\* the caller has the result
HistoryReturn(c) ==
  /\ historyCalls[c].pc = "done"
  /\ historyCalls' = [historyCalls EXCEPT ![c] = IdleHistoryCall]
  /\ UNCHANGED <<now, dedupVars, rateVars, pipeVars, exceptHistory>>

\* processMessage stores a message of the user or of the assistant
StoreMessages(userId, role) ==
  /\ Len(messages[userId]) < MaxHistory
  /\ messages' = [messages EXCEPT ![userId] = StoreMessagesRows(@, role, "real")]
  /\ UNCHANGED <<now, dedupVars, rateVars, procs, processedMessageIds,
                 user_memories, extVars>>

\* ==================================================================== Tools
MaxBatch == 2

ToolCallIds == {"t1", "t2"}
\* a parameter of a call: not given, a non-empty string, or a number
Kinds == {"absent", "str", "num"}
ToolNames == {"search_barks", "follow", "unfollow", "block", "unblock", "dm"}
UnknownTool == "nosuchtool"
MutatingMethods == {"followUser", "unfollowUser", "blockUser", "unblockUser",
                    "sendDirectMessage"}

Params(userId, username, message, query) ==
  [userId |-> userId, username |-> username, message |-> message, query |-> query]

\* the argument objects the completion service may send for a tool
ParamsFor(name) ==
  CASE name = "dm" ->
         {Params(i, u, msg, "absent") : i \in Kinds, u \in Kinds, msg \in Kinds}
    [] name = "search_barks" ->
         {Params(i, "absent", "absent", q) : i \in {"absent", "num"}, q \in Kinds}
    [] name = UnknownTool -> {Params("str", "absent", "absent", "absent")}
    [] OTHER -> {Params(i, u, "absent", "absent") : i \in Kinds, u \in Kinds}

\* a tool call: function.arguments is a JSON text of an object, or no JSON
ToolCallsOf(name) ==
  {[id |-> id, name |-> name, parsable |-> TRUE, params |-> ps] :
     id \in ToolCallIds, ps \in ParamsFor(name)}

UnparsableCalls ==
  {[id |-> id, name |-> "follow", parsable |-> FALSE,
    params |-> Params("absent", "absent", "absent", "absent")] : id \in ToolCallIds}

AllToolCalls ==
  UNION {ToolCallsOf(name) : name \in ToolNames \cup {UnknownTool}}
    \cup UnparsableCalls

\* this.parameters of the tools: the keys with required: true
RequiredKeys(name) ==
  CASE name = "dm" -> {"message"}
    [] name = "unblock" -> {"userId"}
    [] name = "search_barks" -> {"query"}
    [] OTHER -> {}

\* this.parameters of the tools: the keys declared; all are of type 'string'
\* (the numeric limit and offset of search_barks are not given in these calls)
DeclaredKeys(name) ==
  CASE name = "dm" -> {"userId", "username", "message"}
    [] name = "unblock" -> {"userId"}
    [] name = "search_barks" -> {"query", "userId"}
    [] OTHER -> {"userId", "username"}

\* the tools whose execute begins with the username / userId test and
\* resolveUsername; unblock and search_barks begin with validateParams
ResolvingTools == {"follow", "unfollow", "block", "dm"}

\* the platform calls in the try block of execute, in order
Methods(name) ==
  CASE name = "follow" -> <<"followUser", "getUserInfo">>
    [] name = "unfollow" -> <<"unfollowUser", "getUserInfo">>
    [] name = "block" -> <<"blockUser", "getUserInfo">>
    [] name = "unblock" -> <<"unblockUser", "getUserInfo">>
    [] name = "dm" -> <<"getUserInfo", "sendDirectMessage">>
    [] OTHER -> <<"searchNotes">>

\* validateParams without the typeof test
ValidateParamsNoTypes(name, params) ==
  \A key \in DeclaredKeys(name) :
    ~(key \in RequiredKeys(name) /\ params[key] = "absent")

\* BaseTool.validateParams: valid when no required key is missing and every
\* key that is given has the declared type
ValidateParams(name, params) ==
  \A key \in DeclaredKeys(name) :
    /\ ~(key \in RequiredKeys(name) /\ params[key] = "absent")
    /\ ~(params[key] # "absent" /\ params[key] # "str")

\* resolveUsername looks the username up although a userId is given
ResolveUsernameAlways(params) == params.username # "absent"

\* BaseTool.resolveUsername: params.username && !params.userId
ResolveUsernameNeeded(params) ==
  params.username # "absent" /\ params.userId = "absent"

\* the result is tagged with the id of the first call of the batch
ToolResultUntagged(calls, toolCall, success, tool, error, inner) ==
  [tool_call_id |-> calls[1].id, success |-> success, tool |-> tool,
   error |-> error, inner |-> inner]

\* executeToolCalls: results.push({tool_call_id: toolCall.id, ...result});
\* inner is "failed" when the tool returned its own {success: false, ...}
ToolResult(calls, toolCall, success, tool, error, inner) ==
  [tool_call_id |-> toolCall.id, success |-> success, tool |-> tool,
   error |-> error, inner |-> inner]

IdleToolRun == [pc |-> "idle", params |-> Params("absent", "absent", "absent",
                                                 "absent"), method |-> 0]

\* the call the loop of executeToolCalls is at
CurrentIndex == Len(toolResults) + 1
CurrentCall == toolCalls[CurrentIndex]

\* a failure of the call: executeTool returns {success: false, tool, error}
\* for a raise of the tool, the catch of executeToolCalls {success: false,
\* error} for a raise of JSON.parse or of executeTool itself
Failed(tool, error) ==
  /\ toolResults' = Append(toolResults,
                           ToolResult(toolCalls, CurrentCall, FALSE, tool, error, "none"))
  /\ toolRun' = [IdleToolRun EXCEPT !.pc = "loop"]

\* validateParams of the (resolved) params, then the try block
ValidateThenTry(name, params) ==
  IF ValidateParams(name, params)
  THEN /\ toolRun' = [pc |-> "try", params |-> params, method |-> 1]
       /\ UNCHANGED toolResults
  ELSE Failed(name, "Invalid parameters")

\* executeToolCalls(toolCalls, context) is called
ExecuteToolCallsCalled(calls) ==
  /\ toolRun.pc = "idle"
  /\ toolCalls' = calls
  /\ toolResults' = <<>>
  /\ platformCalls' = {}
  /\ toolRun' = [IdleToolRun EXCEPT !.pc = "loop"]
  /\ UNCHANGED <<now, dedupVars, rateVars, pipeVars, exceptTools>>

\* one turn of the loop up to its first platform call: JSON.parse of the
\* arguments, getTool, and the tests execute makes before resolveUsername
\* searches or the try block begins
ExecuteTool ==
  /\ toolRun.pc = "loop"
  /\ CurrentIndex <= Len(toolCalls)
  /\ LET name == CurrentCall.name
         params == CurrentCall.params
     IN IF ~CurrentCall.parsable THEN Failed("none", "Unexpected token")
        ELSE IF name \notin ToolNames THEN Failed("none", "Tool not found")
        ELSE IF name \notin ResolvingTools THEN ValidateThenTry(name, params)
        ELSE IF params.username = "absent" /\ params.userId = "absent"
        THEN Failed(name, "Must provide either username or userId")
        ELSE IF ~ResolveUsernameNeeded(params) THEN ValidateThenTry(name, params)
        ELSE IF params.username # "str"
        THEN Failed(name, "Could not find user")
        ELSE /\ toolRun' = [pc |-> "search1", params |-> params, method |-> 0]
             /\ UNCHANGED toolResults
  /\ UNCHANGED <<toolCalls, platformCalls>>
  /\ UNCHANGED <<now, dedupVars, rateVars, pipeVars, exceptTools>>

\* getUserByUsername: a searchNotes call answers with a note of the user,
\* without one, or fails
GetUserByUsername(outcome) ==
  /\ toolRun.pc \in {"search1", "search2"}
  /\ platformCalls' = platformCalls \cup {<<CurrentIndex, "searchNotes", outcome>>}
  /\ LET name == CurrentCall.name
     IN CASE outcome = "match" ->
               ValidateThenTry(name, [toolRun.params EXCEPT !.userId = "str"])
          [] outcome = "nomatch" /\ toolRun.pc = "search1" ->
               /\ toolRun' = [toolRun EXCEPT !.pc = "search2"]
               /\ UNCHANGED toolResults
          [] OTHER -> Failed(name, "Could not find user")
  /\ UNCHANGED toolCalls
  /\ UNCHANGED <<now, dedupVars, rateVars, pipeVars, exceptTools>>

\* the try block of execute: the next platform call resolves or rejects; the
\* catch of the tool returns its own {success: false, error, ...}
ToolPlatformCall(ok) ==
  /\ toolRun.pc = "try"
  /\ LET name == CurrentCall.name
         methods == Methods(name)
     IN /\ platformCalls' = platformCalls \cup
                              {<<CurrentIndex, methods[toolRun.method],
                                 IF ok THEN "ok" ELSE "failed">>}
        /\ IF ok /\ toolRun.method < Len(methods)
           THEN /\ toolRun' = [toolRun EXCEPT !.method = @ + 1]
                /\ UNCHANGED toolResults
           ELSE /\ toolResults' = Append(toolResults,
                     ToolResult(toolCalls, CurrentCall, TRUE, name, "none",
                                IF ok THEN "ok" ELSE "failed"))
                /\ toolRun' = [IdleToolRun EXCEPT !.pc = "loop"]
  /\ UNCHANGED toolCalls
  /\ UNCHANGED <<now, dedupVars, rateVars, pipeVars, exceptTools>>

\* return results
ExecuteToolCallsReturn ==
  /\ toolRun.pc = "loop"
  /\ CurrentIndex > Len(toolCalls)
  /\ toolRun' = [toolRun EXCEPT !.pc = "returned"]
  /\ UNCHANGED <<toolCalls, toolResults, platformCalls>>
  /\ UNCHANGED <<now, dedupVars, rateVars, pipeVars, exceptTools>>

InitToolVars ==
  /\ toolCalls = <<>>
  /\ toolResults = <<>>
  /\ toolRun = IdleToolRun
  /\ platformCalls = {}

\* ================================================================ WebSocket
\* config.maxReconnectAttempts
MaxReconnectAttempts == 3

\* attemptReconnect gives up one attempt late
GiveUpLate(attempts) == attempts > MaxReconnectAttempts

\* attemptReconnect: this.reconnectAttempts >= this.maxReconnectAttempts
GiveUp(attempts) == attempts >= MaxReconnectAttempts

NoEvent == [event |-> "none", frame |-> None]

\* connect(): nothing when this.ws is open, else a new socket
ConnectSocket ==
  IF wsSet /\ socketState = "open"
  THEN UNCHANGED <<socketState, wsSet>>
  ELSE socketState' = "connecting" /\ wsSet' = TRUE

\* the application starts: websocketManager.connect()
Connect ==
  /\ ~wsStarted
  /\ wsStarted' = TRUE
  /\ ConnectSocket
  /\ UNCHANGED <<isConnected, reconnectAttempts, reconnectTimers, wsScheduled,
                 wsGaveUp, wsLast, wsEmitted>>
  /\ UNCHANGED <<now, dedupVars, rateVars, pipeVars, exceptWs, emitVars>>

\* ws.on('open')
OnOpen ==
  /\ socketState = "connecting"
  /\ socketState' = "open"
  /\ isConnected' = TRUE
  /\ reconnectAttempts' = 0
  /\ wsScheduled' = 0
  /\ wsGaveUp' = FALSE
  /\ wsLast' = [event |-> "open", frame |-> None]
  /\ wsEmitted' = <<>>
  /\ wsInvoked' = <<>>
  /\ UNCHANGED <<wsSet, reconnectTimers, wsStarted>>
  /\ UNCHANGED <<now, dedupVars, rateVars, pipeVars, exceptWs, eventHandlers>>

\* ws.on('error'), which the socket raises before it closes
OnError ==
  /\ socketState \in {"connecting", "open"}
  /\ isConnected' = FALSE
  /\ wsLast' = [event |-> "error", frame |-> None]
  /\ wsEmitted' = <<>>
  /\ wsInvoked' = <<>>
  /\ UNCHANGED <<socketState, wsSet, reconnectAttempts, reconnectTimers,
                 wsScheduled, wsGaveUp, wsStarted>>
  /\ UNCHANGED <<now, dedupVars, rateVars, pipeVars, exceptWs, eventHandlers>>

\* ws.on('close'), with attemptReconnect
OnClose ==
  /\ socketState \in {"connecting", "open", "closing"}
  /\ socketState' = "closed"
  /\ isConnected' = FALSE
  /\ IF GiveUp(reconnectAttempts)
     THEN /\ wsGaveUp' = TRUE
          /\ UNCHANGED <<reconnectAttempts, reconnectTimers, wsScheduled>>
     ELSE /\ reconnectAttempts' = reconnectAttempts + 1
          /\ reconnectTimers' = reconnectTimers + 1
          /\ wsScheduled' = wsScheduled + 1
          /\ UNCHANGED wsGaveUp
  /\ wsLast' = [event |-> "close", frame |-> None]
  /\ wsEmitted' = <<>>
  /\ wsInvoked' = <<>>
  /\ UNCHANGED <<wsSet, wsStarted>>
  /\ UNCHANGED <<now, dedupVars, rateVars, pipeVars, exceptWs, eventHandlers>>

\* the timer of attemptReconnect fires: this.connect()
ReconnectTimer ==
  /\ reconnectTimers > 0
  /\ reconnectTimers' = reconnectTimers - 1
  /\ ConnectSocket
  /\ UNCHANGED <<isConnected, reconnectAttempts, wsScheduled, wsGaveUp, wsStarted,
                 wsLast, wsEmitted>>
  /\ UNCHANGED <<now, dedupVars, rateVars, pipeVars, exceptWs, emitVars>>

\* disconnect(): this.ws.close(), this.ws = null
Disconnect ==
  /\ wsSet
  /\ socketState' = IF socketState \in {"connecting", "open"} THEN "closing"
                    ELSE socketState
  /\ wsSet' = FALSE
  /\ isConnected' = FALSE
  /\ UNCHANGED <<reconnectAttempts, reconnectTimers, wsScheduled, wsGaveUp,
                 wsStarted, wsLast, wsEmitted>>
  /\ UNCHANGED <<now, dedupVars, rateVars, pipeVars, exceptWs, emitVars>>

\* ---- inbound frames
\* a parsed frame: message.type; message.body.type, or "absent" without a
\* body; the type of the payload (message.body.body.type, for the legacy
\* notification frame message.body.type), or "absent" without one; and whether
\* the text of the note it carries mentions the bot
Frame(type, bodyType, payloadType, mentionsBot) ==
  [type |-> type, bodyType |-> bodyType, payloadType |-> payloadType,
   mentionsBot |-> mentionsBot]

Frames ==
  {Frame("channel", "absent", "absent", FALSE)}
    \cup {Frame("channel", "notification", pt, FALSE) :
            pt \in {"absent", "mention", "reply", "follow"}}
    \cup {Frame("channel", bt, "absent", FALSE) :
            bt \in {"note", "message", "messagingMessage", "unreadNotification"}}
    \cup {Frame("channel", bt, "payload", FALSE) :
            bt \in {"message", "messagingMessage", "unreadNotification"}}
    \cup {Frame("channel", "note", "payload", b) : b \in BOOLEAN}
    \cup {Frame("noteUpdated", bt, "absent", FALSE) : bt \in {"absent", "updated"}}
    \cup {Frame("notification", "absent", "absent", FALSE)}
    \cup {Frame("notification", "present", pt, b) :
            pt \in {"mention", "reply", "groupInvited", "follow"}, b \in BOOLEAN}
    \cup {Frame(t, "absent", "absent", FALSE) : t \in {"connected", "pong"}}

\* handleChannelMessage(body)
HandleChannelMessage(frame) ==
  (IF frame.bodyType = "note" /\ frame.payloadType # "absent" /\ frame.mentionsBot
   THEN <<"mention">> ELSE <<>>)
  \o (CASE frame.bodyType = "messagingMessage" -> <<"messagingMessage">>
        [] frame.bodyType = "message" -> <<"directMessage">>
        [] frame.bodyType = "note" -> <<"timelineNote">>
        [] OTHER -> <<>>)

\* handleNotification(notification); without a notification reading its type
\* raises, which the handler of 'message' catches
HandleNotification(frame) ==
  IF frame.bodyType = "absent" THEN <<>>
  ELSE LET type == IF frame.payloadType # "mention" /\ frame.mentionsBot
                   THEN "mention" ELSE frame.payloadType
       IN CASE type = "mention" -> <<"mention">>
            [] type = "reply" -> <<"reply">>
            [] type = "groupInvited" -> <<"groupInvite">>
            [] OTHER -> <<"notification">>

\* handleMessage(message): the events it emits, in order
HandleMessage(frame) ==
  CASE frame.type = "channel" ->
         IF frame.bodyType = "absent" THEN <<>>
         ELSE IF frame.bodyType = "notification"
         THEN CASE frame.payloadType = "absent" -> <<>>
                [] frame.payloadType = "mention" -> <<"mention">>
                [] frame.payloadType = "reply" -> <<"reply">>
                [] OTHER -> <<"notification">>
         ELSE HandleChannelMessage(frame)
    [] frame.type = "noteUpdated" -> <<"noteUpdate">>
    [] frame.type = "notification" -> HandleNotification(frame)
    [] OTHER -> <<>>

\* ---- subscribers
HandlerIds == {"h1", "h2", "h3"}
Outcomes == {"returns", "throws", "rejects"}
EventKinds == {"mention", "reply", "groupInvite", "notification", "timelineNote",
               "directMessage", "messagingMessage", "noteUpdate"}
\* the handlers added and removed: three for 'mention', one for 'timelineNote'
Subscriptions == ({"mention"} \X HandlerIds) \cup {<<"timelineNote", "h1">>}

\* the frames that reach subscribers: a mention and a reply notification, a
\* timeline note that mentions the bot, and a frame that emits nothing
EmitFrames ==
  {Frame("notification", "present", "mention", TRUE),
   Frame("notification", "present", "reply", FALSE),
   Frame("channel", "note", "payload", TRUE),
   Frame("pong", "absent", "absent", FALSE)}

\* on(event, handler): Set.add keeps the order of insertion and no duplicate
On(event, handler) ==
  /\ eventHandlers' = [eventHandlers EXCEPT ![event] =
        IF handler \in RowsOf(@) THEN @ ELSE Append(@, handler)]
  /\ UNCHANGED <<socketState, wsSet, isConnected, reconnectAttempts, reconnectTimers,
                 wsScheduled, wsGaveUp, wsStarted, wsLast, wsEmitted, wsInvoked>>
  /\ UNCHANGED <<now, dedupVars, rateVars, pipeVars, exceptWs>>

\* off(event, handler): Set.delete
Off(event, handler) ==
  /\ handler \in RowsOf(eventHandlers[event])
  /\ eventHandlers' = [eventHandlers EXCEPT ![event] =
        SelectSeq(@, LAMBDA h : h # handler)]
  /\ UNCHANGED <<socketState, wsSet, isConnected, reconnectAttempts, reconnectTimers,
                 wsScheduled, wsGaveUp, wsStarted, wsLast, wsEmitted, wsInvoked>>
  /\ UNCHANGED <<now, dedupVars, rateVars, pipeVars, exceptWs>>

\* the call of one handler with no try around it
TryHandlerNoCatch(outcome) == IF outcome = "throws" THEN "raised" ELSE "returned"

\* try { handler(data) } catch (error) { logger.error(...) }: an async handler
\* that fails returns a rejected promise, a handler that throws is caught
TryHandler(outcome) == IF outcome = "throws" THEN "caught" ELSE "returned"

\* forEach over the handlers of the event: those invoked, and whether an
\* exception got out
RECURSIVE ForEachHandler(_, _)
ForEachHandler(handlers, outcome) ==
  IF handlers = <<>> THEN [invoked |-> <<>>, raised |-> FALSE]
  ELSE IF TryHandler(outcome[Head(handlers)]) = "raised"
  THEN [invoked |-> <<Head(handlers)>>, raised |-> TRUE]
  ELSE LET rest == ForEachHandler(Tail(handlers), outcome)
       IN [invoked |-> <<Head(handlers)>> \o rest.invoked, raised |-> rest.raised]

\* emit(event, data)
Emit(event, outcome) ==
  LET done == ForEachHandler(eventHandlers[event], outcome)
  IN [event |-> event, handlers |-> eventHandlers[event],
      invoked |-> done.invoked, raised |-> done.raised,
      failed |-> {h \in RowsOf(done.invoked) : outcome[h] = "throws"}]

\* the emits of handleMessage in order; an exception out of emit ends
\* handleMessage, in the catch of the handler of 'message'
RECURSIVE EmitAll(_, _)
EmitAll(events, outcome) ==
  IF events = <<>> THEN <<>>
  ELSE LET first == Emit(Head(events), outcome)
       IN IF first.raised THEN <<first>>
          ELSE <<first>> \o EmitAll(Tail(events), outcome)

\* ws.on('message') with a frame that parses; outcome is what each handler
\* does with it
OnMessage(frame, outcome) ==
  /\ socketState = "open"
  /\ wsLast' = [event |-> "message", frame |-> frame]
  /\ wsInvoked' = EmitAll(HandleMessage(frame), outcome)
  /\ wsEmitted' = [i \in DOMAIN wsInvoked' |-> wsInvoked'[i].event]
  /\ UNCHANGED <<socketState, wsSet, isConnected, reconnectAttempts,
                 reconnectTimers, wsScheduled, wsGaveUp, wsStarted, eventHandlers>>
  /\ UNCHANGED <<now, dedupVars, rateVars, pipeVars, exceptWs>>

InitWsVars ==
  /\ socketState = "none"
  /\ wsSet = FALSE
  /\ isConnected = FALSE
  /\ reconnectAttempts = 0
  /\ reconnectTimers = 0
  /\ wsScheduled = 0
  /\ wsGaveUp = FALSE
  /\ wsStarted = FALSE
  /\ wsLast = NoEvent
  /\ wsEmitted = <<>>
  /\ eventHandlers = [e \in EventKinds |-> <<>>]
  /\ wsInvoked = <<>>

InitHistoryVars == historyCalls = [c \in HistoryCallIds |-> IdleHistoryCall]

InitExtVars ==
  /\ InitHistoryVars /\ InitToolVars /\ InitWsVars /\ InitMemVars
  /\ InitProfileVars /\ InitPeriodicVars /\ InitDirectVars /\ InitRequestVars

InitDedup ==
  /\ now = 0
  /\ processed_notifications = <<>>
  /\ pendingMarks = {}
  /\ sweep = None
  /\ markCompleted = [n \in NotificationIds |-> 0]
  /\ isProcessedResult = None
  /\ lastSweep = None
  /\ InitRateVars
  /\ InitPipeVars
  /\ InitExtVars

NextDedup ==
  \/ \E n \in NotificationIds : IsNotificationProcessed(n)
  \/ \E n \in NotificationIds, k \in NotificationTypes, u \in DedupUsers :
       MarkNotificationAsProcessed(n, k, u)
  \/ \E m \in pendingMarks : MarkNotificationRun(m)
  \/ \E d \in 1..MaxDaysOld : CleanupOldNotifications(d)
  \/ CleanupOldNotificationsRun
  \/ AdvanceHour
  \/ AdvanceDay

SpecDedup == InitDedup /\ [][NextDedup]_vars

\* calls made one at a time, from a database without rows
InitRateSeq == InitDedup

\* concurrent calls: the user is new, or has sent PresetCounts messages in the
\* window that began at hour 0
PresetCounts == {MessageCap - 1, MessageCap}

InitRate ==
  /\ now = 0
  /\ processed_notifications = <<>>
  /\ pendingMarks = {}
  /\ sweep = None
  /\ markCompleted = [n \in NotificationIds |-> 0]
  /\ isProcessedResult = None
  /\ lastSweep = None
  /\ rateCalls = [c \in CallIds |-> IdleCall]
  /\ InitPipeVars
  /\ InitExtVars
  /\ \E k \in {0} \cup PresetCounts :
       /\ message_limits = [u \in AllUsers |->
            IF u \in RateUsers /\ k > 0
            THEN [message_count |-> k, reset_time |-> 0] ELSE None]
       /\ rateWindow = [u \in AllUsers |->
            IF u \in RateUsers /\ k > 0
            THEN [start |-> 0, allowed |-> k] ELSE None]

NextRate ==
  \/ \E c \in CallIds, u \in RateUsers, p \in BOOLEAN : CheckMessageLimit(c, u, p)
  \/ \E c \in CallIds : CheckMessageLimitGet(c)
  \/ \E c \in CallIds : CheckMessageLimitDecide(c)
  \/ \E c \in CallIds : CheckMessageLimitRun(c)
  \/ AdvanceRate

SpecRate == InitRate /\ [][NextRate]_vars

NextRateSeq ==
  \/ \E c \in CallIds, u \in RateUsers, p \in BOOLEAN : CheckMessageLimitAlone(c, u, p)
  \/ \E c \in CallIds : CheckMessageLimitGet(c)
  \/ \E c \in CallIds : CheckMessageLimitDecide(c)
  \/ \E c \in CallIds : CheckMessageLimitRun(c)
  \/ \E c \in CallIds : CheckMessageLimitEnd(c)
  \/ AdvanceRate

SpecRateSeq == InitRateSeq /\ [][NextRateSeq]_vars

\* the pipeline: the user is new to the rate table or has used up the window
InitPipeline ==
  /\ now = 0
  /\ processed_notifications = <<>>
  /\ pendingMarks = {}
  /\ sweep = None
  /\ markCompleted = [n \in NotificationIds |-> 0]
  /\ isProcessedResult = None
  /\ lastSweep = None
  /\ rateCalls = [c \in CallIds |-> IdleCall]
  /\ rateWindow = [u \in AllUsers |-> None]
  /\ InitPipeVars
  /\ InitExtVars
  /\ \E k \in {0, MessageCap} :
       message_limits = [u \in AllUsers |->
         IF k > 0 THEN [message_count |-> k, reset_time |-> 0] ELSE None]

NextPipeline ==
  \/ \E k \in {"mention", "reply"}, n \in Notes : ReceiveNotification(k, n)
  \/ \E n \in Notes, b \in BOOLEAN : ReceiveTimelineNote(n, b)
  \/ \E k \in {"directMessage", "messagingMessage"}, n \in Notes :
       ReceiveDirectMessage(k, n)
  \/ \E p \in DOMAIN procs : Commands(p)
  \/ \E p \in DOMAIN procs, ok \in BOOLEAN : CommandStore(p, ok)
  \/ \E p \in DOMAIN procs, ok \in BOOLEAN : CommandSend(p, ok)
  \/ \E p \in DOMAIN procs : LimitCheck(p)
  \/ \E p \in DOMAIN procs : LimitGet(p)
  \/ \E p \in DOMAIN procs : LimitDecide(p)
  \/ \E p \in DOMAIN procs : LimitRun(p)
  \/ \E p \in DOMAIN procs, ok \in BOOLEAN : LimitNotice(p, ok)
  \/ \E p \in DOMAIN procs : Context(p)
  \/ \E p \in DOMAIN procs, ok \in BOOLEAN : StoreUserMessage(p, ok)
  \/ \E p \in DOMAIN procs, msg \in TextOrToolCalls : AgentRequest(p, msg)
  \/ \E p \in DOMAIN procs : ExecuteToolCalls(p)
  \/ \E p \in DOMAIN procs, msg \in {Message("text", FALSE)} :
       AgentFinalRequest(p, msg)
  \/ \E p \in DOMAIN procs, ok \in BOOLEAN : SendReply(p, ok)
  \/ \E p \in DOMAIN procs, ok \in BOOLEAN : StoreAssistantMessage(p, ok)
  \/ \E p \in DOMAIN procs, ok \in BOOLEAN : SendApology(p, ok)

SpecPipeline == InitPipeline /\ [][NextPipeline]_vars

\* the agent loop: ordinary texts, and every shape of answer of the completion
\* service
AgentNotes == {n \in Notes : CommandOf(n.text) = "none"}

InitAgent == InitPipeline

NextAgent ==
  \/ \E k \in {"mention", "reply"}, n \in AgentNotes : ReceiveNotification(k, n)
  \/ \E n \in AgentNotes, b \in BOOLEAN : ReceiveTimelineNote(n, b)
  \/ \E k \in {"directMessage", "messagingMessage"}, n \in AgentNotes :
       ReceiveDirectMessage(k, n)
  \/ \E p \in DOMAIN procs : Commands(p)
  \/ \E p \in DOMAIN procs : LimitCheck(p)
  \/ \E p \in DOMAIN procs : LimitGet(p)
  \/ \E p \in DOMAIN procs : LimitDecide(p)
  \/ \E p \in DOMAIN procs : LimitRun(p)
  \/ \E p \in DOMAIN procs, ok \in BOOLEAN : LimitNotice(p, ok)
  \/ \E p \in DOMAIN procs : Context(p)
  \/ \E p \in DOMAIN procs, ok \in BOOLEAN : StoreUserMessage(p, ok)
  \/ \E p \in DOMAIN procs, msg \in Messages : AgentRequest(p, msg)
  \/ \E p \in DOMAIN procs : ExecuteToolCalls(p)
  \/ \E p \in DOMAIN procs, msg \in Messages : AgentFinalRequest(p, msg)
  \/ \E p \in DOMAIN procs, msg \in Messages : AgentFallback(p, msg)
  \/ \E p \in DOMAIN procs, ok \in BOOLEAN : SendReply(p, ok)
  \/ \E p \in DOMAIN procs, ok \in BOOLEAN : StoreAssistantMessage(p, ok)
  \/ \E p \in DOMAIN procs, ok \in BOOLEAN : SendApology(p, ok)

SpecAgent == InitAgent /\ [][NextAgent]_vars

InitSeed == InitDedup

NextSeed ==
  \/ \E c \in HistoryCallIds, u \in HistoryUsers, sp \in SystemPrompts :
       GetConversationHistory(c, u, sp)
  \/ \E c \in HistoryCallIds, ok \in BOOLEAN : HistoryFetch(c, ok)
  \/ \E c \in HistoryCallIds, ok \in BOOLEAN : HistoryStoreSeed(c, ok)
  \/ \E c \in HistoryCallIds, ok \in BOOLEAN : HistoryRefetch(c, ok)
  \/ \E c \in HistoryCallIds : HistoryReturn(c)
  \/ \E u \in HistoryUsers, r \in {"user", "assistant"} : StoreMessages(u, r)

SpecSeed == InitSeed /\ [][NextSeed]_vars

\* the batches of one or MaxBatch calls
Batches == UNION {[1..n -> AllToolCalls] : n \in 1..MaxBatch}

InitTools == InitDedup

NextTools ==
  \/ toolRun.pc = "idle" /\ \E calls \in Batches : ExecuteToolCallsCalled(calls)
  \/ ExecuteTool
  \/ \E outcome \in {"match", "nomatch", "error"} : GetUserByUsername(outcome)
  \/ \E ok \in BOOLEAN : ToolPlatformCall(ok)
  \/ ExecuteToolCallsReturn

SpecTools == InitTools /\ [][NextTools]_vars

InitWs == InitDedup

NextWs ==
  \/ Connect
  \/ OnOpen
  \/ OnError
  \/ OnClose
  \/ ReconnectTimer
  \/ Disconnect
  \/ \E frame \in Frames : OnMessage(frame, [h \in HandlerIds |-> "returns"])

SpecWs == InitWs /\ [][NextWs]_vars

\* subscribers: handlers come and go while frames arrive on the open socket
InitEmit == InitDedup

NextEmit ==
  \/ Connect
  \/ OnOpen
  \/ \E s \in Subscriptions : On(s[1], s[2])
  \/ \E s \in Subscriptions : Off(s[1], s[2])
  \/ \E frame \in EmitFrames, outcome \in [HandlerIds -> Outcomes] :
       OnMessage(frame, outcome)

SpecEmit == InitEmit /\ [][NextEmit]_vars

\* the memories of u1 under extraction, commands, the memory tool and cleanup,
\* with the commands of another user
InitMemory == InitDedup

NextMemory ==
  \/ \E content \in MemoryTexts : AnalyzeAndStoreMemories("u1", content)
  \/ \E ok \in BOOLEAN : AnalyzeStore(ok)
  \/ \E ok \in BOOLEAN : RememberCommand("u1", "x", ok)
  \/ \E params \in ToolStores, ok \in BOOLEAN : MemoryToolStore("u1", params, ok)
  \/ \E u \in Users, ok \in BOOLEAN : ClearUserMemories(u, ok)
  \/ CleanupMemories("u1", 1)
  \/ \E ok \in BOOLEAN : CleanupRead(ok)
  \/ \E ok \in BOOLEAN : CleanupDelete(ok)

SpecMemory == InitMemory /\ [][NextMemory]_vars

\* cleanupMemories of u1 while the memory tool stores and time passes
InitCleanup == InitDedup

NextCleanup ==
  \/ \E params \in CleanupStores, ok \in BOOLEAN : MemoryToolStore("u1", params, ok)
  \/ \E maxMemories \in MaxMemoriesGiven : CleanupMemories("u1", maxMemories)
  \/ \E ok \in BOOLEAN : CleanupRead(ok)
  \/ \E ok \in BOOLEAN : CleanupDelete(ok)
  \/ AdvanceMemory

SpecCleanup == InitCleanup /\ [][NextCleanup]_vars

\* getRelevantMemories of u1 between extractions, as time passes
InitRelevance == InitDedup

NextRelevance ==
  \/ \E content \in MemoryTexts : AnalyzeAndStoreMemories("u1", content)
  \/ \E ok \in BOOLEAN : AnalyzeStore(ok)
  \/ \E call \in RelevantCalls, ok \in BOOLEAN :
       GetRelevantMemories("u1", call[1], call[2], ok)
  \/ AdvanceMemory

SpecRelevance == InitRelevance /\ [][NextRelevance]_vars

\* calculateImportance over its contents
InitImportance == InitDedup

NextImportance == \E content \in ImportanceTexts : CalculateImportanceCalled(content)

SpecImportance == InitImportance /\ [][NextImportance]_vars

\* getUserProfile of u1 from two callers, as the cleanup intervals pass
InitProfile == InitDedup

NextProfile ==
  \/ \E c \in ProfileCallIds, u \in ProfileUsers : GetUserProfile(c, u)
  \/ \E c \in ProfileCallIds, ok \in BOOLEAN : ProfileFetch(c, ok)
  \/ CleanupInterval

SpecProfile == InitProfile /\ [][NextProfile]_vars

\* events of the Plus user u2 whose profile refresh, memory stores and memory
\* read can fail: the cache holds no profile of the user, one fetched at this
\* time, or one fetched CacheTimeout before
DegradeTexts == {"hello", "I love tea."}
DegradeNotes == {[id |-> "m2", userId |-> "u2", text |-> t] : t \in DegradeTexts}
CachedAt == {CacheTimeout, 0}

InitDegrade ==
  /\ now = 0
  /\ processed_notifications = <<>>
  /\ pendingMarks = {}
  /\ sweep = None
  /\ markCompleted = [n \in NotificationIds |-> 0]
  /\ isProcessedResult = None
  /\ lastSweep = None
  /\ InitRateVars
  /\ InitPipeVars
  /\ InitHistoryVars /\ InitToolVars /\ InitWsVars /\ InitMemVars
  /\ InitPeriodicVars /\ InitDirectVars /\ InitRequestVars
  /\ cacheClock = CacheTimeout
  /\ profileCalls = [c \in ProfileCallIds |-> IdleProfileCall]
  /\ \E entry \in {None} \cup {CacheEntry(t) : t \in CachedAt} :
       /\ userCache = [u \in AllUsers |-> IF u = "u2" THEN entry ELSE None]
       /\ lastProfile = [u \in AllUsers |->
            IF u = "u2" /\ entry # None THEN entry.profile ELSE None]

NextDegrade ==
  \/ \E k \in {"mention", "reply"}, n \in DegradeNotes : ReceiveNotification(k, n)
  \/ \E p \in DOMAIN procs : Commands(p)
  \/ \E p \in DOMAIN procs : LimitCheck(p)
  \/ \E p \in DOMAIN procs, ok \in BOOLEAN : ContextProfile(p, ok)
  \/ \E p \in DOMAIN procs :
       \E stored \in 0..Len(ExtractMemories(procs[p].text, now)) :
         ContextExtract(p, stored)
  \/ \E p \in DOMAIN procs, ok \in BOOLEAN : ContextMemories(p, ok)
  \/ \E p \in DOMAIN procs, ok \in BOOLEAN : StoreUserMessage(p, ok)
  \/ \E p \in DOMAIN procs, msg \in {Message("text", FALSE)} : AgentRequest(p, msg)
  \/ \E p \in DOMAIN procs, ok \in BOOLEAN : SendReply(p, ok)
  \/ \E p \in DOMAIN procs, ok \in BOOLEAN : StoreAssistantMessage(p, ok)
  \/ \E p \in DOMAIN procs, ok \in BOOLEAN : SendApology(p, ok)

SpecDegrade == InitDegrade /\ [][NextDegrade]_vars

\* the steps of one invocation of processMessage; each awaited call returns
\* or fails in the end, so an invocation that can take a step takes one
ProcStep(p) ==
  \/ Commands(p)
  \/ \E ok \in BOOLEAN : CommandStore(p, ok)
  \/ \E ok \in BOOLEAN : CommandSend(p, ok)
  \/ LimitCheck(p)
  \/ LimitGet(p)
  \/ LimitDecide(p)
  \/ LimitRun(p)
  \/ \E ok \in BOOLEAN : LimitNotice(p, ok)
  \/ Context(p)
  \/ \E ok \in BOOLEAN : StoreUserMessage(p, ok)
  \/ \E msg \in TextOrToolCalls : AgentRequest(p, msg)
  \/ ExecuteToolCalls(p)
  \/ AgentFinalRequest(p, Message("text", FALSE))
  \/ \E ok \in BOOLEAN : SendReply(p, ok)
  \/ \E ok \in BOOLEAN : StoreAssistantMessage(p, ok)
  \/ \E ok \in BOOLEAN : SendApology(p, ok)

\* the events of u1 with one ordinary text and one command, and of the Plus
\* user, under that scheduling
TerminateNotes == {n \in Notes : n.text \in {"hello", "!cc"}}

InitTerminate == InitPipeline

NextTerminate ==
  \/ \E k \in {"mention", "reply"}, n \in TerminateNotes : ReceiveNotification(k, n)
  \/ \E k \in {"directMessage", "messagingMessage"}, n \in TerminateNotes :
       ReceiveDirectMessage(k, n)
  \/ \E p \in DOMAIN procs : ProcStep(p)

SpecTerminate ==
  /\ InitTerminate
  /\ [][NextTerminate]_vars
  /\ \A p \in 1..MaxProcs : WF_vars(ProcStep(p))

\* the daily run while u1, who holds PeriodicKeep memories of importance 5,
\* gets more of them from the memory tool
KeptRows ==
  {MemoryRow(Memory("fact_" \o ToString(i), "x", "fact", 5), 0) : i \in 1..PeriodicKeep}

InitPeriodic ==
  /\ now = 0
  /\ processed_notifications = <<>>
  /\ pendingMarks = {}
  /\ sweep = None
  /\ markCompleted = [n \in NotificationIds |-> 0]
  /\ isProcessedResult = None
  /\ lastSweep = None
  /\ InitRateVars
  /\ procs = <<>>
  /\ processedMessageIds = <<>>
  /\ messages = [u \in AllUsers |-> <<>>]
  /\ user_memories = [u \in AllUsers |-> IF u = "u1" THEN KeptRows ELSE {}]
  /\ InitExtVars

NextPeriodic ==
  \/ \E params \in CleanupStores, ok \in BOOLEAN : MemoryToolStore("u1", params, ok)
  \/ CleanupUserMemories
  \/ CleanupUserMemoriesLoop
  \/ AdvanceMemory

SpecPeriodic == InitPeriodic /\ [][NextPeriodic]_vars

\* direct messages delivered again and again, by both kinds of frame: no id
\* is held yet, or m1 is the oldest of MaxProcessedIds ids, the others being
\* those of messages handled since
OldIds == [i \in 1..(MaxProcessedIds - 1) |-> "old" \o ToString(i)]
DirectNotes == {n \in Notes : n.text = "hello"}

InitDirect ==
  /\ now = 0
  /\ processed_notifications = <<>>
  /\ pendingMarks = {}
  /\ sweep = None
  /\ markCompleted = [n \in NotificationIds |-> 0]
  /\ isProcessedResult = None
  /\ lastSweep = None
  /\ InitRateVars
  /\ procs = <<>>
  /\ processedMessageIds \in {<<>>, <<"m1">> \o OldIds}
  /\ messages = [u \in AllUsers |-> <<>>]
  /\ user_memories = [u \in AllUsers |-> {}]
  /\ InitExtVars

NextDirect ==
  \/ \E k \in {"directMessage", "messagingMessage"}, n \in DirectNotes :
       DirectMessageFrame(k, n)
  \/ \E p \in DOMAIN procs : Commands(p)
  \/ \E p \in DOMAIN procs : LimitCheck(p)

SpecDirect == InitDirect /\ [][NextDirect]_vars

\* the completion requests of the events of the Plus user u2: ordinary texts
\* and the clear-context command, the history fetch resolving or rejecting
RequestNotes ==
  {[id |-> "m2", userId |-> "u2", text |-> "hello"],
   [id |-> "m4", userId |-> "u2", text |-> "!cc"]}

InitRequest == InitPipeline

NextRequest ==
  \/ \E k \in {"mention", "reply"}, n \in RequestNotes : ReceiveNotification(k, n)
  \/ \E p \in DOMAIN procs : Commands(p)
  \/ \E p \in DOMAIN procs, ok \in BOOLEAN : CommandStore(p, ok)
  \/ \E p \in DOMAIN procs, ok \in BOOLEAN : CommandSend(p, ok)
  \/ \E p \in DOMAIN procs : LimitCheck(p)
  \/ \E p \in DOMAIN procs : Context(p)
  \/ \E p \in DOMAIN procs, ok \in BOOLEAN : StoreUserMessage(p, ok)
  \/ \E p \in DOMAIN procs, ok \in BOOLEAN, msg \in TextOrToolCalls :
       AgentRequestSent(p, ok, msg)
  \/ \E p \in DOMAIN procs : ExecuteToolCalls(p)
  \/ \E p \in DOMAIN procs : AgentFinalRequestSent(p, Message("text", FALSE))
  \/ \E p \in DOMAIN procs, ok \in BOOLEAN : SendReply(p, ok)
  \/ \E p \in DOMAIN procs, ok \in BOOLEAN : StoreAssistantMessage(p, ok)
  \/ \E p \in DOMAIN procs, ok \in BOOLEAN : SendApology(p, ok)

SpecRequest == InitRequest /\ [][NextRequest]_vars

\* ================================================================ Claims
\* new Date(text) of an ISO string, and of a CURRENT_TIMESTAMP text, in hours
TimeOfText(text) == text[1] * HoursPerDay + text[3]

RowsFor(n) == {i \in DOMAIN processed_notifications :
                 processed_notifications[i].notification_id = n}

\* C1: however often and through whichever channel a note or message id is
\* delivered, at most one processMessage run for that id gets as far as sending
\* a reply.
RepliesTo(id) ==
  {p \in DOMAIN procs : procs[p].id = id /\ \E i \in DOMAIN procs[p].out :
                                               procs[p].out[i] = "reply"}

C1_AtMostOnce == \A id \in NoteIds : Cardinality(RepliesTo(id)) <= 1

\* C2: an isNotificationProcessed(id) made after a markNotificationAsProcessed
\* of id has resolved (and before a sweep removed the record) answers true,
\* and however often id was marked there is exactly one record for it.
C2_MarkedIsVisibleOnce ==
  /\ (isProcessedResult # None /\ isProcessedResult.marked) => isProcessedResult.result
  /\ \A n \in NotificationIds : markCompleted[n] > 0 => Cardinality(RowsFor(n)) = 1

C2_Witness ==
  /\ isProcessedResult # None
  /\ isProcessedResult.marked
  /\ isProcessedResult.result
  /\ markCompleted[isProcessedResult.id] = 2
  /\ Cardinality(RowsFor(isProcessedResult.id)) = 1

\* C3: the sweep deletes no record whose processedAt is newer than its cutoff
\* now - daysOld days.
C3_SweepKeepsRecent ==
  lastSweep # None =>
    \A ts \in lastSweep.deleted : TimeOfText(ts) <= lastSweep.cutoff

NonExemptReturned(c) ==
  /\ rateCalls[c].pc \in {"run", "done"}
  /\ ~rateCalls[c].isPlus

\* C4: of the calls a non-exempt user makes one after the other in one window,
\* the first MessageCap are allowed and go on to the reply, and every later one
\* (the 16th) returns limit-reached and gets the limit notice.
C4_CapPerWindow ==
  \A c \in CallIds : NonExemptReturned(c) =>
    /\ rateCalls[c].nth <= MessageCap =>
         (rateCalls[c].result = Allowed /\ rateCalls[c].next = "reply")
    /\ rateCalls[c].nth > MessageCap =>
         /\ rateCalls[c].result # Allowed
         /\ rateCalls[c].result.limitReached
         /\ rateCalls[c].next = "limitNotice"

C4_Witness ==
  \E c \in CallIds :
    /\ NonExemptReturned(c)
    /\ rateCalls[c].nth = MessageCap + 1
    /\ rateCalls[c].result # Allowed
    /\ rateCalls[c].next = "limitNotice"

\* C5: the resetTime of every limit-reached result is later than the time of
\* the call that got it.
C5_ResetTimeInFuture ==
  \A c \in CallIds :
    (NonExemptReturned(c) /\ rateCalls[c].result # Allowed) =>
      TimeOfText(rateCalls[c].result.resetTime) > rateCalls[c].now

Expired(c) ==
  /\ rateCalls[c].row # None
  /\ rateCalls[c].now - rateCalls[c].row.reset_time > OneHour

\* C6: a call of a non-exempt user made more than one hour after windowStart
\* is allowed, and once it is over the user's count is 1 and windowStart is the
\* time of that call, whatever the count was.
C6_WindowReset ==
  \A c \in CallIds :
    (rateCalls[c].pc = "done" /\ ~rateCalls[c].isPlus /\ Expired(c)) =>
      /\ rateCalls[c].result = Allowed
      /\ message_limits[rateCalls[c].userId] =
           [message_count |-> 1, reset_time |-> rateCalls[c].now]

C6_Witness ==
  \E c \in CallIds :
    /\ rateCalls[c].pc = "done"
    /\ ~rateCalls[c].isPlus
    /\ Expired(c)
    /\ rateCalls[c].row.message_count = MessageCap
    /\ message_limits[rateCalls[c].userId] =
         [message_count |-> 1, reset_time |-> rateCalls[c].now]

\* C7: whatever the interleaving of concurrent calls of one non-exempt user,
\* neither the stored count nor the number of calls allowed in a window
\* exceeds MessageCap.
C7_CapUnderConcurrency ==
  \A u \in RateUsers :
    /\ message_limits[u] # None => message_limits[u].message_count <= MessageCap
    /\ rateWindow[u] # None => rateWindow[u].allowed <= MessageCap

\* C8: a call for a Plus user is allowed and leaves the user's row as it was,
\* creating none if there was none.
C8_ExemptBypass ==
  \A c \in CallIds :
    (rateCalls[c].pc = "done" /\ rateCalls[c].isPlus) =>
      /\ rateCalls[c].result = Allowed
      /\ message_limits[rateCalls[c].userId] = rateCalls[c].before

C8_Witness ==
  \E c \in CallIds :
    /\ rateCalls[c].pc = "done"
    /\ rateCalls[c].isPlus
    /\ rateCalls[c].before # None
    /\ rateCalls[c].before.message_count = MessageCap
    /\ rateCalls[c].result = Allowed

HasSent(p, kind) == \E i \in DOMAIN procs[p].out : procs[p].out[i] = kind

\* C9: an event whose stripped text is "!cc" makes no completion request and
\* gets no generated reply, and when it has ended the history of its user is
\* empty, also when clearContext or the send of the reply fails.
C9_ClearContextShortCircuit ==
  \A p \in DOMAIN procs : procs[p].text = "!cc" =>
    /\ procs[p].completions = 0
    /\ ~HasSent(p, "reply")
    /\ procs[p].pc = "done" => messages[procs[p].userId] = <<>>

\* C10: no event whose text is a built-in command makes a completion request
\* or is answered by a generated reply.
C10_CommandsBypassCompletion ==
  \A p \in DOMAIN procs : CommandOf(procs[p].text) # "none" =>
    (procs[p].completions = 0 /\ ~HasSent(p, "reply"))

Stored(p, role) == \E i \in DOMAIN procs[p].stores : procs[p].stores[i] = role

\* C11: an event for which a completion request was made has stored its user
\* message before; an event that stored an assistant message has sent its
\* reply before, so an event whose send failed stores none; the user message
\* is stored before the assistant message.
C11_StoreOrdering ==
  \A p \in DOMAIN procs :
    /\ procs[p].completions > 0 => Stored(p, "user")
    /\ Stored(p, "assistant") => HasSent(p, "reply")
    /\ procs[p].stores \in {<<>>, <<"user">>, <<"user", "assistant">>}

\* an event has stored its user message, got a completion, sent the reply and
\* stored it, and another one's send of the reply failed after its completion
C11_Witness ==
  /\ \E p \in DOMAIN procs :
       /\ procs[p].stores = <<"user", "assistant">>
       /\ procs[p].completions > 0 /\ HasSent(p, "reply")
  /\ \E p \in DOMAIN procs :
       /\ procs[p].completions > 0 /\ ~HasSent(p, "reply")
       /\ procs[p].pc = "done" /\ procs[p].stores = <<"user">>

SeedRows(u) == {i \in DOMAIN messages[u] : messages[u][i].content = "seed"}

\* C12: whatever getConversationHistory calls are made with a seed, one after
\* the other or overlapping, the store never holds more than one seed message
\* of a user.
C12_OneSeed == \A u \in HistoryUsers : Cardinality(SeedRows(u)) <= 1

\* C13: an event whose first completion response requests tools and whose
\* second response requests tools again has run one tool batch, and the
\* agent loop has handed back a text to send as the reply.
C13_BoundedAgentLoop ==
  \A p \in DOMAIN procs : procs[p].secondTools =>
    (procs[p].toolBatches = 1 /\ procs[p].response = "string")

\* C14: when a step of the agent loop has raised, the text is retried once
\* without tools and what the retry answers is a text that goes on to be sent.
C14_AgentFallback ==
  \A p \in DOMAIN procs : procs[p].fallbacks > 0 =>
    (procs[p].fallbacks = 1 /\ procs[p].response = "string")

\* the platform methods attempted for call i of the batch
Attempted(i) == {c[2] : c \in {d \in platformCalls : d[1] = i}}

CallOfRegisteredTool(i) == toolCalls[i].parsable /\ toolCalls[i].name \in ToolNames

\* an argument object every declared key of which is a string where given,
\* with the required keys and a userId
SoundCall(i) ==
  /\ CallOfRegisteredTool(i)
  /\ \A key \in DeclaredKeys(toolCalls[i].name) : toolCalls[i].params[key] # "num"
  /\ \A key \in RequiredKeys(toolCalls[i].name) : toolCalls[i].params[key] = "str"
  /\ toolCalls[i].name \in ResolvingTools \cup {"unblock"} =>
       toolCalls[i].params.userId = "str"

\* C15: executeToolCalls gives one result per call, in the order of the calls
\* and with the id of its call; a call with unparsable arguments or of an
\* unknown tool gets {success: false, error} and the calls beside it are
\* executed all the same: a sound call has had its first platform call and
\* has a success result whatever the other calls of the batch were.
C15_ToolBatchIsolation ==
  /\ Len(toolResults) <= Len(toolCalls)
  /\ toolRun.pc = "returned" => Len(toolResults) = Len(toolCalls)
  /\ \A i \in DOMAIN toolResults :
       /\ toolResults[i].tool_call_id = toolCalls[i].id
       /\ ~CallOfRegisteredTool(i) =>
            (~toolResults[i].success /\ toolResults[i].error # "none")
       /\ SoundCall(i) =>
            /\ toolResults[i].success
            /\ Methods(toolCalls[i].name)[1] \in Attempted(i)

\* a batch has returned whose first call failed and whose second call, with
\* another id, was executed
C15_Witness ==
  /\ toolRun.pc = "returned"
  /\ Len(toolCalls) = 2
  /\ toolCalls[1].id # toolCalls[2].id
  /\ ~CallOfRegisteredTool(1) /\ ~toolResults[1].success
  /\ SoundCall(2) /\ toolResults[2].success /\ toolResults[2].inner = "ok"
  /\ Attempted(2) \cap MutatingMethods # {}

\* a call of a registered tool whose arguments lack a required parameter, give
\* a parameter of the wrong type, or give neither userId nor username to a
\* tool that acts on a user
FailsValidation(i) ==
  /\ CallOfRegisteredTool(i)
  /\ \/ \E key \in RequiredKeys(toolCalls[i].name) : toolCalls[i].params[key] = "absent"
     \/ \E key \in DeclaredKeys(toolCalls[i].name) : toolCalls[i].params[key] = "num"
     \/ /\ toolCalls[i].name \in ResolvingTools
        /\ toolCalls[i].params.userId = "absent"
        /\ toolCalls[i].params.username = "absent"

\* C16: for a call that fails validation no follow, unfollow, block, unblock
\* or direct-message call is attempted, and its result is a failure that
\* names an error.
C16_ValidationBeforeSideEffect ==
  \A i \in DOMAIN toolCalls : FailsValidation(i) =>
    /\ Attempted(i) \cap MutatingMethods = {}
    /\ i \in DOMAIN toolResults =>
         (~toolResults[i].success /\ toolResults[i].error # "none")

\* a direct message to a userId with a message of the wrong type was rejected
C16_Witness ==
  \E i \in DOMAIN toolResults :
    /\ toolCalls[i].name = "dm"
    /\ toolCalls[i].params.userId = "str" /\ toolCalls[i].params.message = "num"
    /\ toolResults[i].error = "Invalid parameters"

\* call i was given a username and no userId
HandleOnly(i) ==
  /\ CallOfRegisteredTool(i)
  /\ toolCalls[i].name \in ResolvingTools
  /\ toolCalls[i].params.username = "str"
  /\ toolCalls[i].params.userId = "absent"

LookupMatched(i) == <<i, "searchNotes", "match">> \in platformCalls

\* C17: a call with only a username whose lookup found no user, or failed,
\* ends with the failure "Could not find user" and without a follow, unfollow,
\* block or direct-message call; a call with a userId makes no lookup.
C17_HandleResolution ==
  \A i \in DOMAIN toolCalls :
    /\ (HandleOnly(i) /\ i \in DOMAIN toolResults /\ ~LookupMatched(i)) =>
         /\ ~toolResults[i].success
         /\ toolResults[i].error = "Could not find user"
         /\ Attempted(i) \cap MutatingMethods = {}
    /\ (CallOfRegisteredTool(i) /\ toolCalls[i].name \in ResolvingTools
          /\ toolCalls[i].params.userId # "absent") =>
         "searchNotes" \notin Attempted(i)

\* a username was looked up twice without a match and the call failed, and a
\* call with a userId and a username went to the platform without a lookup
C17_Witness ==
  /\ \E i \in DOMAIN toolResults :
       /\ HandleOnly(i)
       /\ <<i, "searchNotes", "nomatch">> \in platformCalls
       /\ toolResults[i].error = "Could not find user"
  /\ \E i \in DOMAIN toolResults :
       /\ toolCalls[i].name = "follow"
       /\ toolCalls[i].params.userId = "str" /\ toolCalls[i].params.username = "str"
       /\ "followUser" \in Attempted(i)

\* C18: the attempt counter stays within 0..maxReconnectAttempts and is 0
\* while the socket is open; no more than maxReconnectAttempts reconnects are
\* scheduled without an open in between; once attemptReconnect has given up
\* no socket is connecting or open and no connect is pending.
C18_ReconnectCap ==
  /\ reconnectAttempts \in 0..MaxReconnectAttempts
  /\ wsScheduled <= MaxReconnectAttempts
  /\ socketState = "open" => reconnectAttempts = 0
  /\ wsGaveUp => (reconnectTimers = 0 /\ socketState = "closed" /\ ~isConnected)

\* every attempt was used up without an open and the manager has given up
C18_Witness ==
  /\ wsGaveUp
  /\ reconnectAttempts = MaxReconnectAttempts
  /\ wsScheduled = MaxReconnectAttempts

\* C19: the close handler in which attemptReconnect gives up emits an event
\* to the subscribers of the manager.
C19_GiveUpReported ==
  (wsGaveUp /\ wsLast.event = "close") => wsEmitted # <<>>

\* the frames handleMessage and the handlers under it have a branch for
Recognized(frame) ==
  \/ frame.type = "channel" /\ frame.bodyType = "notification"
       /\ frame.payloadType \in {"mention", "reply"}
  \/ frame.type = "channel"
       /\ frame.bodyType \in {"note", "message", "messagingMessage"}
       /\ frame.payloadType # "absent"
  \/ frame.type = "noteUpdated" /\ frame.bodyType # "absent"
  \/ frame.type = "notification"
       /\ frame.payloadType \in {"mention", "reply", "groupInvited"}

\* C20: the handling of a parsed frame emits at least one event, and 'notification'
\* for a frame of a type or payload shape that is not recognized.
C20_NoFrameDropped ==
  wsLast.event = "message" =>
    /\ wsEmitted # <<>>
    /\ ~Recognized(wsLast.frame) =>
         \E i \in DOMAIN wsEmitted : wsEmitted[i] = "notification"

\* C21: when several handlers are registered for one event kind and one of them
\* fails, every other handler registered for the kind is still invoked with the
\* event, and emit does not raise.
C21_SubscriberIsolation ==
  \A i \in DOMAIN wsInvoked :
    /\ ~wsInvoked[i].raised
    /\ RowsOf(wsInvoked[i].handlers) \subseteq RowsOf(wsInvoked[i].invoked)

\* an event went to three handlers, the second of which threw
C21_Witness ==
  /\ wsLast.event = "message"
  /\ \E i \in DOMAIN wsInvoked :
       /\ Len(wsInvoked[i].handlers) = 3
       /\ wsInvoked[i].invoked = wsInvoked[i].handlers
       /\ wsInvoked[i].failed = {wsInvoked[i].handlers[2]}

\* C22: extracting and storing the same canonical fact twice for one user
\* (the same matched text up to case, punctuation and whitespace) leaves a
\* single memory with that key, and there is at most one memory for each
\* user and key.
\* the words of a text in lower case, without punctuation
RECURSIVE WordsOf(_, _)
WordsOf(t, word) ==
  IF t = "" THEN (IF word = "" THEN <<>> ELSE <<word>>)
  ELSE IF CharAt(t, 1) \in WhiteSpace
  THEN (IF word = "" THEN <<>> ELSE <<word>>) \o WordsOf(SubSeq(t, 2, Len(t)), "")
  ELSE WordsOf(SubSeq(t, 2, Len(t)), word \o CharAt(t, 1))

CanonicalFact(text) == WordsOf(StripOthers(ToLowerCase(text)), "")

Extracted == {"preference", "fact", "interest"}

C22_UpsertIdempotence ==
  \A u \in AllUsers : \A r1, r2 \in user_memories[u] :
    /\ r1.key = r2.key => r1 = r2
    /\ (/\ r1.type \in Extracted
        /\ r1.type = r2.type
        /\ CanonicalFact(r1.value) = CanonicalFact(r2.value)) => r1.key = r2.key

\* C24: for a non-empty current text getRelevantMemories orders the memories
\* by descending text overlap times importance, and two memories of equal score
\* by recency, the more recently updated first, whatever their importance.
C24_RelevanceRanking ==
  (relevantCall # None /\ relevantCall.currentMessage # "") =>
    LET result == relevantCall.result
        Score(i) == RelevanceScore(result[i], relevantCall.currentMessage)
    IN \A i, j \in DOMAIN result :
         i < j =>
           /\ ~ScoreLess(Score(i), Score(j))
           /\ ~ScoreLess(Score(j), Score(i)) =>
                ~TextLess(result[i].updated_at, result[j].updated_at)

InFlight(call) == call # None

C26_MemoryLifecycle ==
  [][\A u \in AllUsers : \A r \in user_memories[u] :
       (\A q \in user_memories'[u] : q.key # r.key) =>
         \/ \E ok \in BOOLEAN : ClearUserMemories(u, ok)
         \/ /\ InFlight(cleanupCall)
            /\ cleanupCall.userId = u
            /\ \E ok \in BOOLEAN : CleanupDelete(ok)]_vars

\* u1 holds three memories after an eviction, while another store is awaited
C26_Witness ==
  /\ Cardinality(user_memories["u1"]) >= 3
  /\ lastEviction # None
  /\ InFlight(analyzeCall)

\* C27: after any sequence of automatic extraction, '!remember' commands and
\* memory-tool stores, every stored memory has one of the eight memory types
\* and an importance within 1..10.
C27_WellFormedMemories ==
  \A u \in AllUsers : \A r \in user_memories[u] :
    r.type \in MemoryTypes /\ r.importance \in 1..10

\* C23: calculateImportance returns 9 when the text contains a high-salience
\* cue, otherwise 6 when it contains a medium-salience cue, otherwise 3 when it
\* contains a low-salience cue, otherwise 5: the higher tier wins.
Cued(content, keywords) == \E k \in keywords : Includes(ToLowerCase(content), k)

C23_ImportanceTiers ==
  importanceCall # None =>
    LET content == importanceCall.content
    IN importanceCall.result =
         CASE Cued(content, HighKeywords) -> 9
           [] ~Cued(content, HighKeywords) /\ Cued(content, MediumKeywords) -> 6
           [] ~Cued(content, HighKeywords) /\ ~Cued(content, MediumKeywords)
                /\ Cued(content, LowKeywords) -> 3
           [] OTHER -> 5

\* a content with a medium and a low cue and none of the high tier
C23_Witness ==
  /\ importanceCall # None
  /\ ~Cued(importanceCall.content, HighKeywords)
  /\ Cued(importanceCall.content, MediumKeywords)
  /\ Cued(importanceCall.content, {"maybe", "could"})
  /\ importanceCall.result = 6

\* C29: a getUserProfile call that finds a valid entry returns its profile
\* without a fetch, and a call whose fetch fails after a profile of the user
\* had been fetched returns a profile, not null
C29_ProfileCacheFallback ==
  \A c \in ProfileCallIds :
    LET call == profileCalls[c]
    IN call.pc = "done" =>
         /\ (call.fetch = "none" => call.result = call.cached.profile)
         /\ (call.fetch = "rejected" /\ call.known # None => call.result # NoProfile)

\* a profile was fetched, and the call whose fetch failed has returned null
C29_Counterexample ==
  \E c \in ProfileCallIds :
    /\ profileCalls[c].pc = "done"
    /\ profileCalls[c].fetch = "rejected"
    /\ profileCalls[c].known # None
    /\ profileCalls[c].result = NoProfile

\* the step that follows each of the three calls
AfterContextStep(pc) ==
  CASE pc = "context" -> "extract"
    [] pc = "extract" -> "retrieve"
    [] pc = "retrieve" -> "storeUser"

\* C28: the step an event takes from its profile refresh, its memory stores
\* or its memory read leads to the next step of the reply path and sends
\* nothing, whether the call failed or not; after a failed refresh the event
\* holds the expired profile or the placeholder, after failed stores it goes
\* on to the read, and after a failed read it holds no memories
C28_Degradation ==
  [][\A p \in DOMAIN procs :
       (procs[p].pc \in {"context", "extract", "retrieve"}
          /\ procs'[p].pc # procs[p].pc)
         => /\ procs'[p].pc = AfterContextStep(procs[p].pc)
            /\ procs'[p].out = procs[p].out
            /\ (procs[p].pc = "context" /\ procs'[p].context.refresh = "rejected")
                 => /\ procs'[p].context.profile =
                         ExpiredOrNull(userCache[procs[p].userId])
                    /\ procs'[p].context.profile = NoProfile
                         => procs'[p].context.username = "unknown"
            /\ procs[p].pc = "extract"
                 => procs'[p].context.extraction \in {"stored", "rejected"}
            /\ (procs[p].pc = "retrieve" /\ procs'[p].context.retrieval = "rejected")
                 => procs'[p].context.memories = 0]_vars

\* an event whose refresh, stores and read all failed has sent its reply
C28_Witness ==
  \E p \in DOMAIN procs :
    /\ procs[p].context # None
    /\ procs[p].context.refresh = "rejected"
    /\ procs[p].context.extraction = "rejected"
    /\ procs[p].context.retrieval = "rejected"
    /\ "reply" \in RowsOf(procs[p].out)

\* an event that ended as the code intends: the reply of its command, the
\* limit notice, or the generated reply with both rows of the history stored
Completed(proc) ==
  \/ proc.cmd # "none" /\ proc.out = <<"command">>
  \/ proc.cmd = "none" /\ proc.out = <<"limit">>
  \/ proc.cmd = "none" /\ proc.out = <<"reply">>
       /\ proc.stores = <<"user", "assistant">>

\* C30: an event that ended after one of its steps failed has sent the user
\* the apology and nothing else, or nothing when the send of the apology
\* failed too, or the apology after the reply when the failure came after
\* the reply was sent
C30_FailureApology ==
  \A p \in DOMAIN procs :
    (procs[p].pc = "done" /\ ~Completed(procs[p]))
      => procs[p].out \in {<<>>, <<"apology">>, <<"reply", "apology">>}

\* the terminal state of an ended invocation
TerminalState(proc) ==
  CASE proc.out = <<"limit">> -> "blocked"
    [] proc.out = <<"command">> -> "command"
    [] proc.stores = <<"user", "assistant">> /\ proc.out = <<"reply">> -> "Stored"
    [] OTHER -> "Failed"

C32_PeriodicEviction ==
  (IF periodicRun = None THEN FALSE ELSE periodicRun.pc = "done")
    => \A u \in Users : periodicRun.left[u] = {}

\* C33: a frame of a direct message leads to an invocation of processMessage
\* only if its id is not held in processedMessageIds, and the id is held from
\* that step on: while it is held no second invocation is made for it
C33_DirectMessageOnce ==
  [][\A i \in 1..MaxProcs :
       (i \in DOMAIN procs' /\ i \notin DOMAIN procs)
         => /\ procs'[i].id \notin RowsOf(processedMessageIds)
            /\ procs'[i].id \in RowsOf(processedMessageIds')
            /\ Len(procs') = Len(procs) + 1]_vars

\* the message m2 was delivered by a frame of each kind, and processMessage
\* was invoked for it once
C33_Witness ==
  /\ \E i, j \in DOMAIN dmDelivered :
       /\ dmDelivered[i] = [kind |-> "directMessage", id |-> "m2"]
       /\ dmDelivered[j] = [kind |-> "messagingMessage", id |-> "m2"]
  /\ Cardinality({p \in DOMAIN procs : procs[p].id = "m2"}) = 1

\* C34: processedMessageIds never holds more than MaxProcessedIds ids, and a
\* step that adds an id to MaxProcessedIds ids leaves the KeepProcessedIds
\* added last, the new id the last of them
C34_ProcessedIdsBound ==
  /\ [](Len(processedMessageIds) <= MaxProcessedIds)
  /\ [][processedMessageIds' # processedMessageIds
          => LET added == Append(processedMessageIds, procs'[Len(procs')].id)
             IN /\ processedMessageIds'[Len(processedMessageIds')]
                     = procs'[Len(procs')].id
                /\ IF Len(processedMessageIds) = MaxProcessedIds
                   THEN /\ Len(processedMessageIds') = KeepProcessedIds
                        /\ \A k \in 1..KeepProcessedIds :
                             processedMessageIds'[k]
                               = added[Len(added) - KeepProcessedIds + k]
                   ELSE processedMessageIds' = added]_vars

\* the set was cut: m1, the oldest id, is no longer held, and m2 is
C34_Witness ==
  /\ Len(processedMessageIds) = KeepProcessedIds
  /\ "m1" \notin RowsOf(processedMessageIds)
  /\ "m2" \in RowsOf(processedMessageIds)

\* disconnect() was called and connect() has not run since: this.ws is null
Disconnected == wsStarted /\ ~wsSet

\* C35: once disconnect() was called no step schedules a reconnect and no
\* step makes a new socket
C35_DisconnectStays ==
  [][Disconnected => /\ reconnectTimers' <= reconnectTimers
                     /\ (socketState' = "connecting" => socketState = "connecting")]_vars

\* C36: an invocation of processMessage sends the user at most one message
C36_OneOutboundMessage ==
  \A p \in DOMAIN procs : Len(procs[p].out) <= 1

\* the messages of a request that carry the text of the request's own event
\* as a user message
OwnUserMessages(request) ==
  {i \in DOMAIN request.messages :
     /\ request.messages[i].role = "user"
     /\ request.messages[i].event = request.event}

\* C37: the message list of every completion request holds the user message
\* of its event exactly once
C37_UserMessageOnce ==
  \A r \in DOMAIN requestLog : Cardinality(OwnUserMessages(requestLog[r])) = 1

\* C38: no invocation of processMessage is made for an event whose author is
\* the bot itself
C38_NoOwnEvents ==
  \A p \in DOMAIN procs : procs[p].userId # BotUserId

\* checkMessageLimit has answered the invocation with limitReached
RateBlocked(proc) ==
  /\ proc.pc \in {"limitNotice", "apology", "done"}
  /\ proc.limitRow # None
  /\ ProcessLimitResult(CheckMessageLimitDecision(proc.limitRow, now).result)
       = "limitNotice"

\* C39: an invocation that checkMessageLimit answered with limitReached has
\* made no completion request, run no tool, stored no memory and no row of
\* the conversation history
C39_BlockedNoEffect ==
  \A p \in DOMAIN procs :
    RateBlocked(procs[p])
      => /\ procs[p].completions = 0
         /\ procs[p].toolBatches = 0
         /\ procs[p].stores = <<>>
         /\ procs[p].memories = 0

\* C40: every assistant row of table messages comes after the user row of
\* the same event in the history of its user
C40_ReplyAfterUserMessage ==
  \A u \in AllUsers : \A i \in DOMAIN messages[u] :
    messages[u][i].role = "assistant"
      => \E j \in 1..(i - 1) :
           /\ messages[u][j].role = "user"
           /\ messages[u][j].event = messages[u][i].event

====
